---- MODULE Spec2Model ----
(***************************************************************************)
(* State-machine model of the progression/economy engine in                *)
(* src/designer_clicker_bot.py: one player, the shared catalogs, the       *)
(* process-wide click rate limiter and the player's FSM context.           *)
(*                                                                         *)
(* Number conventions (the source uses Python floats):                     *)
(*   - percentages (0.15, 0.10, ...) are integers in hundredths (15, 10);  *)
(*   - a multiplier "x H" is H/100, an order reward snapshot is in 1/10000;*)
(*   - time is in whole seconds, for utcnow() and time.monotonic() alike.  *)
(* int(round(x)) is Python's round-half-even, int(x) on x >= 0 is floor.   *)
(***************************************************************************)
EXTENDS Integers, Sequences, FiniteSets, TLC

None == "none"

(* ------------------------------------------------------------------ *)
(* Program constants                                                    *)
(* ------------------------------------------------------------------ *)
MAX_OFFLINE_SECONDS == 43200
BASE_CLICK_LIMIT == 10
MAX_CLICK_LIMIT == 30
RANDOM_EVENT_CLICK_INTERVAL == 20
FAST_ORDER_SECONDS == 300
HIGH_ORDER_MIN_LEVEL == 5
REQ_CLICKS_REDUCTION_CAP == 30
SHOP_DISCOUNT_CAP == 20
NEGATIVE_EVENT_REDUCTION_CAP == 90
TEAM_DISCOUNT_CAP == 80
SPECIAL_ORDER_REWARD_MUL == 2
TREND_REWARD_MUL == 2
TREND_DURATION_SECONDS == 86400
PRESTIGE_GAIN_DIVISOR == 1000
SKILL_LEVEL_INTERVAL == 5
FREE_ORDER_PROGRESS_PCT == 10
STUDIO_MIN_LEVEL == 20
START_BALANCE == 200
SECONDS_PER_DAY == 86400
RATE_WINDOW == 1
DEFAULT_BUFF_DURATION == 600
PENDING_EVENT_TTL == 43200
EVENT_SHIELD_CODE == "project_insurance"

(* ------------------------------------------------------------------ *)
(* Bounds of the model                                                  *)
(* ------------------------------------------------------------------ *)
MaxTicks == 1        \* clock advances per behaviour
MaxOrders == 2       \* take-order attempts per behaviour
MaxClicks == 2       \* click attempts per behaviour
MaxBuys == 2         \* purchase attempts per behaviour
MaxAdmin == 3        \* administrative commands per behaviour
MaxBuffs == 2        \* rows of user_buffs
MaxRLTime == 4       \* clock bound of the rate-limiter specification
MaxRLLimit == 3      \* largest limit tried in the rate-limiter specification
MaxBoostLevel == 4   \* highest level a boost is bought to
MaxResets == 1       \* prestige resets per behaviour
MaxGrant == 1        \* largest amount of /give_shield
MaxEvents == 1       \* random events drawn per behaviour
MaxCancels == 1      \* presses of the cancel-order button per behaviour
MaxRLTries == 5      \* attempts in the rate-limiter specification
MaxReq == 12         \* largest required_clicks tried in the formula specification
MaxMulSteps == 12    \* largest reward multiplier tried there, in quarters
MaxTotal == 9100     \* largest lifetime-earned amount tried there
MaxLogLen == 2       \* rows of economy_logs drawn there
MaxInflight == 2     \* handlers of the player running at the same time
MaxExecutes == 2     \* prestige resets per behaviour of the studio specification
MaxTeamLevel == 4    \* highest level a team member is raised to

\* A task that runs no handler.
NoTask == [handler |-> None]

\* No handler in flight.
NoInflight == [i \in 1..MaxInflight |-> NoTask]

(* ------------------------------------------------------------------ *)
(* Arithmetic helpers                                                   *)
(* ------------------------------------------------------------------ *)
Max(a, b) == IF a >= b THEN a ELSE b
Min(a, b) == IF a <= b THEN a ELSE b

\* int(round(n / d)) for d > 0: Python 3 rounds halves to the even integer.
Round(n, d) ==
    LET q == n \div d
        r == n % d
    IN  IF 2 * r < d THEN q
        ELSE IF 2 * r > d THEN q + 1
        ELSE IF q % 2 = 0 THEN q ELSE q + 1

\* floor(a * b / c) for a, b >= 0 and c > 0, by binary long multiplication
\* so that no intermediate product leaves the 32-bit range: MulDivQR gives
\* the quotient and remainder of a * b by c.
RECURSIVE MulDivQR(_, _, _)
MulDivQR(a, b, c) ==
    IF b = 0 THEN [q |-> 0, r |-> 0]
    ELSE LET h == MulDivQR(a, b \div 2, c)
             dq == 2 * h.q + (2 * h.r) \div c
             dr == (2 * h.r) % c
         IN  IF b % 2 = 0 THEN [q |-> dq, r |-> dr]
             ELSE [q |-> dq + (a \div c) + (dr + (a % c)) \div c, r |-> (dr + (a % c)) % c]
MulDivFloor(a, b, c) == MulDivQR(a, b, c).q

RECURSIVE Pow(_, _)
Pow(b, e) == IF e = 0 THEN 1 ELSE b * Pow(b, e - 1)

RECURSIVE SumSeq(_)
SumSeq(s) == IF s = <<>> THEN 0 ELSE Head(s) + SumSeq(Tail(s))

\* int(floor(sqrt(n / d))) for n >= 0 and d > 0: the largest g with g*g*d <= n.
RECURSIVE FloorSqrtFrom(_, _, _)
FloorSqrtFrom(g, n, d) ==
    IF (g + 1) * (g + 1) * d > n THEN g ELSE FloorSqrtFrom(g + 1, n, d)
FloorSqrt(n, d) == FloorSqrtFrom(0, n, d)

(* ------------------------------------------------------------------ *)
(* Economy formulas                                                     *)
(* ------------------------------------------------------------------ *)
xp_to_level(n) == 100 * n * n

\* upgrade_cost(base, growth, n): the growth argument is ignored by the
\* source, BOOST_COST_GROWTH = 1.6 = 8/5 is always used.
upgrade_cost(base, n) ==
    LET level_index == Max(0, n - 1)
    IN  Round(base * Pow(8, level_index), Pow(5, level_index))

\* A cp_add boost that gains its base bonus at every level.
cumulative_cp_add_linear(base_bonus, level) == base_bonus * Max(0, level)

\* cumulative_cp_add(base_bonus, level), BOOST_CP_ADD_GROWTH = 1.45 = 29/20.
RECURSIVE cumulative_cp_add(_, _)
cumulative_cp_add(base_bonus, level) ==
    IF level <= 0 THEN 0
    ELSE cumulative_cp_add(base_bonus, level - 1)
         + Round(base_bonus * Pow(29, level - 1), Pow(20, level - 1))

\* required_clicks(base_clicks, level) = round(base * (1 + 0.15 * floor(level / 5)))
required_clicks(base_clicks, level) ==
    Round(base_clicks * (100 + 15 * (level \div 5)), 100)

\* base_reward_from_required(req, reward_mul): reward_mul in 1/10000.
base_reward_from_required(req, reward_mul) ==
    Round(req * 6 * reward_mul, 100000)

\* finish_order_reward with a floor of 0.5 under the multiplier.
finish_order_reward_half(required_clicks_snapshot, reward_snapshot_mul) ==
    base_reward_from_required(required_clicks_snapshot, Max(5000, reward_snapshot_mul))

\* finish_order_reward without the floor of 1.0 under the multiplier.
finish_order_reward_unclamped(required_clicks_snapshot, reward_snapshot_mul) ==
    base_reward_from_required(required_clicks_snapshot, reward_snapshot_mul)

\* finish_order_reward(required_clicks_snapshot, reward_snapshot_mul)
finish_order_reward(required_clicks_snapshot, reward_snapshot_mul) ==
    LET mul == Max(10000, reward_snapshot_mul)
    IN  base_reward_from_required(required_clicks_snapshot, mul)

\* snapshot_required_clicks(order, user_level, req_clicks_pct)
snapshot_required_clicks(base_clicks, user_level, req_clicks_pct) ==
    LET base_req == required_clicks(base_clicks, user_level)
        reduced == Round(base_req * (100 - req_clicks_pct), 100)
    IN  Max(1, reduced)

\* team_income_per_min(base_per_min, level), in quarters of a currency unit.
team_income_per_min4(base_per_min, level) ==
    IF level <= 0 THEN 0 ELSE base_per_min * (4 + (level - 1))

(* ------------------------------------------------------------------ *)
(* Catalogs (rows of the seed data that the model keeps)                *)
(* ------------------------------------------------------------------ *)
Get(f, k, default) == IF k \in DOMAIN f THEN f[k] ELSE default

\* Order templates: SEED_ORDERS rows; reward_multiplier in hundredths.
OrderCatalog ==
    [o \in {1, 2} |->
        CASE o = 1 -> [base_clicks |-> 80, min_level |-> 1, is_special |-> FALSE,
                       reward_multiplier |-> 100]
          [] o = 2 -> [base_clicks |-> 1800, min_level |-> 4, is_special |-> TRUE,
                       reward_multiplier |-> 180]]
OrderIds == DOMAIN OrderCatalog

\* Boost definitions: SEED_BOOSTS rows; step_value of the percentage types
\* in hundredths, of offline_cap in seconds.
BoostCatalog ==
    [reward_mastery |-> [type |-> "reward", base_cost |-> 320, step_value |-> 15, min_level |-> 1],
     inspiration |-> [type |-> "cp_add", base_cost |-> 400, step_value |-> 10, min_level |-> 1],
     passive_income_plus |-> [type |-> "passive", base_cost |-> 420, step_value |-> 12,
                              min_level |-> 1],
     anti_brak |-> [type |-> "event_protection", base_cost |-> 760, step_value |-> 12,
                    min_level |-> 3],
     project_insurance |-> [type |-> "event_shield", base_cost |-> 900, step_value |-> 1,
                            min_level |-> 3],
     ergonomics |-> [type |-> "ratelimit", base_cost |-> 900, step_value |-> 2, min_level |-> 3],
     deep_offline |-> [type |-> "offline_cap", base_cost |-> 1140, step_value |-> 10800,
                       min_level |-> 5],
     quick_briefs |-> [type |-> "free_order", base_cost |-> 1040, step_value |-> 5,
                       min_level |-> 5]]
BoostCodes == DOMAIN BoostCatalog

\* Team members: SEED_TEAM rows.
TeamCatalog ==
    [junior |-> [base_income_per_min |-> 4, base_cost |-> 100, min_level |-> 2]]
TeamCodes == DOMAIN TeamCatalog

\* Equipment items: SEED_ITEMS rows; bonus_value of the _pct types in hundredths.
Slots == {"laptop", "phone", "tablet", "monitor", "chair", "charm"}
ItemCatalog ==
    [laptop_t2 |-> [slot |-> "laptop", bonus_type |-> "cp_pct", bonus_value |-> 10,
                    price |-> 500, min_level |-> 2],
     monitor_t1 |-> [slot |-> "monitor", bonus_type |-> "reward_pct", bonus_value |-> 4,
                     price |-> 350, min_level |-> 1],
     phone_t1 |-> [slot |-> "phone", bonus_type |-> "passive_pct", bonus_value |-> 3,
                   price |-> 200, min_level |-> 1],
     chair_t2 |-> [slot |-> "chair", bonus_type |-> "ratelimit_plus", bonus_value |-> 1,
                   price |-> 400, min_level |-> 2],
     client_contract |-> [slot |-> "charm", bonus_type |-> "req_clicks_pct", bonus_value |-> 3,
                          price |-> 0, min_level |-> 2]]
ItemCodes == DOMAIN ItemCatalog

\* Skills: SEED_SKILLS rows, in (min_level, id) order.
SkillCatalog ==
    [web_master |-> [effect |-> [reward_pct |-> 5], min_level |-> 5],
     art_director |-> [effect |-> [passive_pct |-> 5], min_level |-> 5],
     ui_alchemist |-> [effect |-> [cp_pct |-> 5], min_level |-> 10],
     automation_ninja |-> [effect |-> [passive_pct |-> 3, cp_add |-> 1], min_level |-> 15]]
SkillCodes == DOMAIN SkillCatalog

\* Random events: SEED_RANDOM_EVENTS rows with their RANDOM_EVENT_EFFECTS.
EventCatalog ==
    [idea_spark |-> [kind |-> "bonus", duration_sec |-> 0, weight |-> 5, min_level |-> 1,
                     interactive |-> FALSE, effect |-> [balance |-> 200]],
     coffee_spill |-> [kind |-> "penalty", duration_sec |-> 0, weight |-> 4, min_level |-> 1,
                       interactive |-> FALSE,
                       effect |-> [balance_pct |-> -5, balance |-> -150]],
     spill_choice |-> [kind |-> "penalty", duration_sec |-> 0, weight |-> 1, min_level |-> 1,
                       interactive |-> TRUE,
                       effect |-> [interactive |->
                           << [effect |-> [balance_pct |-> -5, balance |-> -150]],
                              [effect |-> [xp_pct |-> -5, xp |-> -50]] >>]],
     viral_post |-> [kind |-> "buff", duration_sec |-> 600, weight |-> 3, min_level |-> 3,
                     interactive |-> FALSE, effect |-> [buff |-> [reward_pct |-> 10]]],
     client_tip |-> [kind |-> "bonus", duration_sec |-> 0, weight |-> 2, min_level |-> 2,
                     interactive |-> FALSE, effect |-> [balance |-> 350]],
     deadline_crunch |-> [kind |-> "buff", duration_sec |-> 300, weight |-> 2, min_level |-> 4,
                          interactive |-> FALSE, effect |-> [buff |-> [reward_pct |-> -10]]],
     agency_feature |-> [kind |-> "buff", duration_sec |-> 900, weight |-> 2, min_level |-> 5,
                         interactive |-> FALSE, effect |-> [buff |-> [passive_pct |-> 5]]],
     software_crash |-> [kind |-> "penalty", duration_sec |-> 0, weight |-> 1, min_level |-> 3,
                         interactive |-> FALSE, effect |-> [xp_pct |-> -10, xp |-> -100]],
     mentor_call |-> [kind |-> "bonus", duration_sec |-> 0, weight |-> 2, min_level |-> 2,
                      interactive |-> FALSE, effect |-> [xp |-> 150]],
     perfect_flow |-> [kind |-> "buff", duration_sec |-> 600, weight |-> 2, min_level |-> 4,
                       interactive |-> FALSE, effect |-> [buff |-> [cp_pct |-> 15]]]]
EventCodes == DOMAIN EventCatalog

\* Daily tasks: DAILY_TASKS.
DailyTasks ==
    [daily_clicks |-> [goal |-> 100, rub |-> 0, xp |-> 120],
     daily_orders |-> [goal |-> 2, rub |-> 250, xp |-> 0],
     daily_shop |-> [goal |-> 1, rub |-> 120, xp |-> 80]]
DailyCodes == DOMAIN DailyTasks

\* Quests: the QUEST_DEFINITIONS row of hell_client.  stage_keys are the keys
\* of flow in order, flow[i] the options of stage i, each with the stage it
\* leads to and the change it makes to the payload.
QuestCatalog ==
    [hell_client |->
        [min_level |-> 2,
         payload_keys |-> << "mood", "budget", "respect", "speed" >>,
         stage_keys |-> << "intro", "step1", "step2" >>,
         flow |-> << << [next |-> "step1", delta |-> [mood |-> 1]],
                        [next |-> "step1", delta |-> [budget |-> 1]],
                        [next |-> "step1", delta |-> [respect |-> 1]] >>,
                     << [next |-> "step2", delta |-> [mood |-> 1]],
                        [next |-> "step2", delta |-> [respect |-> -1, speed |-> 1]],
                        [next |-> "step2", delta |-> [budget |-> 1]] >>,
                     << [next |-> "finale", delta |-> [respect |-> 1]],
                        [next |-> "finale", delta |-> [budget |-> 1]],
                        [next |-> "finale", delta |-> [speed |-> 1]] >> >>,
         rewards |-> [default |-> [rub |-> 600, xp |-> 300, item_code |-> "client_contract"],
                      budget |-> [rub |-> 800, xp |-> 250, item_code |-> "client_contract"],
                      mood |-> [rub |-> 500, xp |-> 320, item_code |-> "client_contract"],
                      respect |-> [rub |-> 550, xp |-> 360, item_code |-> "client_contract"],
                      speed |-> [rub |-> 650, xp |-> 280, item_code |-> "client_contract"]]]]
QuestCodes == DOMAIN QuestCatalog

EarningTypes == {"order_finish", "quest_reward", "campaign_reward"}

(* ------------------------------------------------------------------ *)
(* State                                                                *)
(* ------------------------------------------------------------------ *)
VARIABLES
    now,            \* the clock: utcnow() and time.monotonic(), in seconds
    user,           \* the users row
    user_orders,    \* rows of user_orders, a set of records keyed by id
    user_boosts,    \* user_boosts.level by boost code (0: no row or level 0)
    user_team,      \* user_team.level by member code
    user_items,     \* owned item codes (user_items)
    user_equipment, \* user_equipment.item_id by slot (None: empty)
    user_skills,    \* taken skill codes (user_skills)
    user_buffs,     \* rows of user_buffs in insertion order
    user_quests,    \* rows of user_quests by quest code
    prestige,       \* the user_prestige row
    economy_log,    \* rows of economy_logs in insertion order
    trend,          \* the trend_order row of global_state, or NoTrend
    events,         \* RateLimiter._events[tg_id], oldest first
    fsm,            \* the player's FSM context: state and stored data
    out,            \* the last answer that is not a menu or a prompt, with what was computed
    hist,           \* history: counters of the bounded inputs, snapshots at acceptance
    admitted,       \* history of the rate-limiter specification: the times allow admitted
    inflight        \* the handlers that have read and not yet committed, by task

vars == << now, user, user_orders, user_boosts, user_team, user_items, user_equipment,
           user_skills, user_buffs, user_quests, prestige, economy_log, trend, events, fsm, out,
           hist, admitted, inflight >>

\* The database rows of the player as one value: what a session reads and writes.
DB ==
    [user |-> user, orders |-> user_orders, boosts |-> user_boosts, team |-> user_team,
     items |-> user_items, equipment |-> user_equipment, skills |-> user_skills,
     buffs |-> user_buffs, quests |-> user_quests, prestige |-> prestige,
     log |-> economy_log, trend |-> trend]

\* session.begin() commits every row the handler changed.
Commit(db) ==
    /\ user' = db.user
    /\ user_orders' = db.orders
    /\ user_boosts' = db.boosts
    /\ user_team' = db.team
    /\ user_items' = db.items
    /\ user_equipment' = db.equipment
    /\ user_skills' = db.skills
    /\ user_buffs' = db.buffs
    /\ user_quests' = db.quests
    /\ prestige' = db.prestige
    /\ economy_log' = db.log
    /\ trend' = db.trend

\* No row of user_quests.
NoQuests == [q \in {} |-> 0]

AddLog(db, type, amount) ==
    [db EXCEPT !.log = Append(@, [type |-> type, amount |-> amount])]

(* ------------------------------------------------------------------ *)
(* StatAggregator: get_user_stats                                       *)
(* ------------------------------------------------------------------ *)
\* Sum of f[x] over x in S.
RECURSIVE SumOver(_, _)
SumOver(S, f) ==
    IF S = {} THEN 0
    ELSE LET x == CHOOSE y \in S : TRUE IN f[x] + SumOver(S \ {x}, f)

\* A clamp that keeps only the lower bound.
ClampFloor(lo, hi, x) == Max(lo, x)

Clamp(lo, hi, x) == Max(lo, Min(hi, x))

\* The boosts of the catalogue by type.
BoostTypes == {BoostCatalog[c].type : c \in BoostCodes}

BoostsByType == [ty \in BoostTypes |-> {c \in BoostCodes : BoostCatalog[c].type = ty}]

\* What one joined row (boost, level) adds to the accumulator of its type:
\* nothing with level <= 0 or step_value = 0, cumulative_cp_add for cp_add,
\* the level for event_shield, level * step_value otherwise.
BoostValue(boost, lvl) ==
    IF lvl <= 0 \/ boost.step_value = 0 THEN 0
    ELSE IF boost.type = "cp_add" THEN cumulative_cp_add(boost.step_value, lvl)
    ELSE IF boost.type = "event_shield" THEN lvl
    ELSE lvl * boost.step_value

\* The loop over the boost rows: the accumulators by boost type.
BoostTotals(db) ==
    [ty \in BoostTypes |->
        SumOver(BoostsByType[ty], [c \in BoostCodes |-> BoostValue(BoostCatalog[c], db.boosts[c])])]

\* The bonus types of the items of the catalogue.
EquipTypes == {ItemCatalog[i].bonus_type : i \in ItemCodes}

\* The bonus an equipped item gives, scaled by the equipment multiplier
\* 1 + equipment_eff_pct (hundredths; exact while no equipment_eff boost is in
\* the catalogue).
EquipValue(item, equipment_multiplier) == (item.bonus_value * equipment_multiplier) \div 100

EquippedOfType(db, btype) ==
    {sl \in Slots : db.equipment[sl] # None /\ ItemCatalog[db.equipment[sl]].bonus_type = btype}

EquipSumOver(S, db, equipment_multiplier) ==
    SumOver(S, [sl \in S |-> EquipValue(ItemCatalog[db.equipment[sl]], equipment_multiplier)])

\* The loop over the equipped items: the accumulators by bonus type.
EquipTotals(db, equipment_multiplier) ==
    [ty \in EquipTypes |-> EquipSumOver(EquippedOfType(db, ty), db, equipment_multiplier)]

\* expires and expires <= now
BuffExpired(b, t) == b.expires_at <= t

\* A buff met at the very second it expires still counts.
ActiveBuffsUntil(db, t) == SelectSeq(db.buffs, LAMBDA b : b.expires_at >= t)

ActiveBuffs(db, t) == SelectSeq(db.buffs, LAMBDA b : ~BuffExpired(b, t))

\* The payload keys the loops over buffs and skills read.
EffectKeys == {"cp_add", "cp_pct", "reward_pct", "passive_pct", "req_clicks_pct", "xp_pct"}

\* The loop over the buffs that have not expired: the accumulators by key.
BuffTotals(act) ==
    [k \in EffectKeys |-> SumSeq([i \in 1..Len(act) |-> Get(act[i].payload, k, 0)])]

\* The loop over the skills: the accumulators by key.
SkillTotals(db) ==
    [k \in EffectKeys |->
        SumOver(db.skills, [c \in SkillCodes |-> Get(SkillCatalog[c].effect, k, 0)])]

\* The dictionary get_user_stats returns, from the accumulators of its loops.
StatsOf(db, boost, equip, buff, skill) ==
    LET B(ty) == Get(boost, ty, 0)
        E(ty) == Get(equip, ty, 0)
        prestige_pct == Max(0, db.prestige.reputation)
        cp_add == B("cp_add") + B("cp") + buff.cp_add + skill.cp_add
        cp_pct == E("cp_pct") + buff.cp_pct + skill.cp_pct + prestige_pct
        reward_pct == E("reward_pct") + buff.reward_pct + skill.reward_pct + prestige_pct
        passive_pct == E("passive_pct") + buff.passive_pct + skill.passive_pct + prestige_pct
        req_clicks_pct == E("req_clicks_pct") + buff.req_clicks_pct + skill.req_clicks_pct
        xp_pct == B("xp") + buff.xp_pct + skill.xp_pct
    IN  [cp |-> Max(1, Round((db.user.cp_base + cp_add) * (100 + cp_pct), 100)),
         reward_mul_total |-> Max(0, 100 + db.user.reward_mul + B("reward") + reward_pct),
         passive_mul_total |-> Max(0, 100 + db.user.passive_mul + B("passive") + passive_pct),
         req_clicks_pct |->
             Clamp(0, 95, req_clicks_pct
                          + Min(REQ_CLICKS_REDUCTION_CAP, Max(0, B("req_clicks")))),
         ratelimit_plus |-> B("ratelimit") + E("ratelimit_plus"),
         xp_pct |-> Max(0, xp_pct),
         prestige_pct |-> prestige_pct,
         crit_chance |-> Clamp(0, 95, B("crit")),
         team_income_pct |-> Max(0, B("team_income")),
         free_order_chance |-> Clamp(0, 95, B("free_order")),
         team_upgrade_discount_pct |-> Clamp(0, TEAM_DISCOUNT_CAP, B("team_discount")),
         offline_cap_bonus |-> Max(0, B("offline_cap")),
         rush_reward_pct |-> Max(0, B("rush_reward")),
         night_passive_pct |-> Max(0, B("night_passive")),
         shop_discount_pct |-> Clamp(0, SHOP_DISCOUNT_CAP, B("shop_discount")),
         high_order_reward_pct |-> Max(0, B("high_order_reward")),
         negative_event_weight_mul |->
             Clamp(0, 100, 100 - Min(NEGATIVE_EVENT_REDUCTION_CAP,
                                     Max(0, B("event_protection")))),
         event_shield_charges |-> Max(0, B("event_shield"))]

StatsWithBoosts(db, boost, t) ==
    StatsOf(db, boost, EquipTotals(db, 100 + Get(boost, "equipment_eff", 0)),
            BuffTotals(ActiveBuffs(db, t)), SkillTotals(db))

\* The values get_user_stats returns at time t.
Stats(db, t) == StatsWithBoosts(db, BoostTotals(db), t)

\* The rows get_user_stats leaves: it deletes every expired buff it met.
PurgeExpiredBuffs(db, t) == [db EXCEPT !.buffs = ActiveBuffs(db, t)]

\* get_user_stats(session, user): the stats and the database after the call.
get_user_stats(db, t) == [stats |-> Stats(db, t), db |-> PurgeExpiredBuffs(db, t)]

(* ------------------------------------------------------------------ *)
(* PassiveAccrual                                                       *)
(* ------------------------------------------------------------------ *)
\* calc_passive_income_rate: the rate per second is RateNum / RateDen, with
\* per_min in quarters (4), seconds per minute (60), passive_mul_total and
\* the team bonus in hundredths (100 * 100).  No night_passive boost is in the
\* catalogue, so the night bonus never applies.
RateDen == 2400000

RateNum(db, stats) ==
    SumOver(TeamCodes,
            [m \in TeamCodes |->
                team_income_per_min4(TeamCatalog[m].base_income_per_min, db.team[m])])
    * stats.passive_mul_total * (100 + stats.team_income_pct)

\* int(rate * delta)
PassiveAmount(db, stats, delta) == MulDivFloor(RateNum(db, stats), delta, RateDen)

\* The end of apply_offline_income: the amount, when positive, is credited
\* and logged.
CreditPassive(db, amount) ==
    [db |-> IF amount > 0
            THEN AddLog([db EXCEPT !.user.balance = @ + amount,
                                   !.user.passive_income_collected = @ + amount],
                        "passive", amount)
            ELSE db,
     amount |-> amount]

\* apply_offline_income paying for the whole elapsed time.
AccrueOfflineUncapped(gs, delta_raw, t) ==
    CreditPassive([gs.db EXCEPT !.user.last_seen = t],
                  PassiveAmount(gs.db, gs.stats, delta_raw))

\* apply_offline_income once get_user_stats has answered gs: the elapsed time
\* is capped, last_seen is set, the rate is read.
AccrueOffline(gs, delta_raw, t) ==
    CreditPassive([gs.db EXCEPT !.user.last_seen = t],
                  PassiveAmount(gs.db, gs.stats,
                                Min(delta_raw, MAX_OFFLINE_SECONDS + gs.stats.offline_cap_bonus)))

\* An accrual that moves last_seen only when it grants something.
apply_offline_income_lazy(db, t) ==
    IF AccrueOffline(get_user_stats(db, t), Max(0, t - db.user.last_seen), t).amount > 0
    THEN AccrueOffline(get_user_stats(db, t), Max(0, t - db.user.last_seen), t)
    ELSE [db |-> get_user_stats(db, t).db, amount |-> 0]

\* apply_offline_income(session, user) at time t: [db, amount].
apply_offline_income(db, t) ==
    AccrueOffline(get_user_stats(db, t), Max(0, t - db.user.last_seen), t)

\* process_offline_income: the achievements it evaluates are notifications only.
process_offline_income(db, t) == apply_offline_income(db, t).db

(* ------------------------------------------------------------------ *)
(* Experience and daily tasks                                           *)
(* ------------------------------------------------------------------ *)
\* The while loop of add_xp_and_levelup: xp and level once xp < xp_to_level(level).
RECURSIVE LevelLoop(_, _)
LevelLoop(xp, lvl) ==
    IF xp >= xp_to_level(lvl) THEN LevelLoop(xp - xp_to_level(lvl), lvl + 1)
    ELSE [xp |-> xp, level |-> lvl]

LevelledUp(u, r) ==
    [user |-> [u EXCEPT !.xp = r.xp, !.level = r.level], levels_gained |-> r.level - u.level]

\* add_xp_and_levelup(user, xp_gain): the user row and the levels gained.
add_xp_and_levelup(u, xp_gain) == LevelledUp(u, LevelLoop(u.xp + xp_gain, u.level))

FreshDaily == [c \in DailyCodes |-> [progress |-> 0, done |-> FALSE]]

\* ensure_daily_task_state(user): a new day resets the three tasks.
ensure_daily_task_state(u, t) ==
    IF u.daily_task_date # t \div SECONDS_PER_DAY
    THEN [u EXCEPT !.daily_task_date = t \div SECONDS_PER_DAY, !.daily_task_state = FreshDaily]
    ELSE u

\* The completion of a daily task: the reward is paid and logged.
CompleteDaily(db, u, task_code, task_def) ==
    IF task_def.rub # 0
    THEN AddLog([db EXCEPT !.user = u], "daily_task", task_def.rub)
    ELSE [db EXCEPT !.user = u]

DailyReward(u, task_code, task_def) ==
    IF task_def.xp # 0
    THEN add_xp_and_levelup([u EXCEPT !.daily_task_state[task_code].done = TRUE,
                                      !.balance = @ + task_def.rub], task_def.xp).user
    ELSE [u EXCEPT !.daily_task_state[task_code].done = TRUE, !.balance = @ + task_def.rub]

\* daily_task_on_event past ensure_daily_task_state, for the user row u0.
DailyProgress(db, u0, task_code, task_def, progress) ==
    IF u0.daily_task_state[task_code].done THEN [db EXCEPT !.user = u0]
    ELSE IF progress >= task_def.goal
    THEN CompleteDaily(db,
                       DailyReward([u0 EXCEPT !.daily_task_state[task_code].progress = progress],
                                   task_code, task_def),
                       task_code, task_def)
    ELSE [db EXCEPT !.user = [u0 EXCEPT !.daily_task_state[task_code].progress = progress]]

DailyFor(db, u0, task_code, amount) ==
    DailyProgress(db, u0, task_code, DailyTasks[task_code],
                  Min(DailyTasks[task_code].goal,
                      u0.daily_task_state[task_code].progress + amount))

\* daily_task_on_event(message, session, user, task_code, amount)
daily_task_on_event(db, task_code, amount, t) ==
    DailyFor(db, ensure_daily_task_state(db.user, t), task_code, amount)

(* ------------------------------------------------------------------ *)
(* EventResolver                                                        *)
(* ------------------------------------------------------------------ *)
EffectNegative(eff) ==
    \/ Get(eff, "balance", 0) < 0 \/ Get(eff, "balance_pct", 0) < 0
    \/ Get(eff, "xp", 0) < 0 \/ Get(eff, "xp_pct", 0) < 0

\* is_negative_event(event), for the row ev of the catalogue.
is_negative_event(ev) ==
    \/ EffectNegative(ev.effect)
    \/ /\ "buff" \in DOMAIN ev.effect
       /\ \E k \in DOMAIN ev.effect.buff : ev.effect.buff[k] < 0
    \/ /\ "interactive" \in DOMAIN ev.effect
       /\ \E i \in DOMAIN ev.effect.interactive :
              EffectNegative(ev.effect.interactive[i].effect)
    \/ ev.kind = "penalty"

\* The weight pick_random_event gives an event, in hundredths.
EventWeight(ev, stats) ==
    Max(1, ev.weight) * (IF is_negative_event(ev) THEN stats.negative_event_weight_mul ELSE 100)

\* pick_random_event: the events the weighted draw can return.
pick_random_event(db, stats) ==
    {c \in EventCodes : /\ EventCatalog[c].min_level <= db.user.level
                        /\ EventWeight(EventCatalog[c], stats) > 0}

\* The rows of random_events in the order the select returns them: the order
\* of SEED_RANDOM_EVENTS.
EventOrder ==
    << "idea_spark", "coffee_spill", "spill_choice", "viral_post", "client_tip",
       "deadline_crunch", "agency_feature", "software_crash", "mentor_call", "perfect_flow" >>

\* The rows pick_random_event selects: min_level <= user.level.
EventCandidates(db) ==
    SelectSeq(EventOrder, LAMBDA c : EventCatalog[c].min_level <= db.user.level)

\* The weight every candidate has when negative rows keep their weight.
FlatWeights(rows, stats) ==
    [i \in 1..Len(rows) |-> Max(1, EventCatalog[rows[i]].weight) * 100]

\* The weights of the candidates, in hundredths.
DrawWeights(rows, stats) ==
    [i \in 1..Len(rows) |-> EventWeight(EventCatalog[rows[i]], stats)]

\* The loop over zip(events, weights): the first event with pick <= upto, the
\* last event when there is none.
RECURSIVE DrawLoop(_, _, _, _, _)
DrawLoop(rows, weights, pick, upto, i) ==
    IF i > Len(rows) THEN rows[Len(rows)]
    ELSE IF pick <= upto + weights[i] THEN rows[i]
    ELSE DrawLoop(rows, weights, pick, upto + weights[i], i + 1)

\* pick_random_event when random.uniform(0, total_weight) returns pick.
DrawEvent(rows, weights, pick) ==
    IF rows = <<>> \/ SumSeq(weights) <= 0 THEN None
    ELSE DrawLoop(rows, weights, pick, 0, 1)

\* has_pending_interactive_event(session, user)
has_pending_interactive_event(db) ==
    \E i \in DOMAIN db.buffs : db.buffs[i].pending

\* The denominator of the percentages of an effect: hundredths, as the shipped
\* effects are written, unless the effect names a finer one.
PctDen(effect) == Get(effect, "pct_den", 100)

\* The balance change without the correction of a percentage that floors to 0.
BalanceDeltaUnforced(u, effect) ==
    (IF "balance_pct" \notin DOMAIN effect THEN 0
     ELSE (u.balance * effect.balance_pct) \div PctDen(effect))
    + Get(effect, "balance", 0)

\* The balance change of an effect for the user row u.
BalanceDelta(u, effect) ==
    LET bpct == Get(effect, "balance_pct", 0)
        bfloor == (u.balance * bpct) \div PctDen(effect)
    IN  (IF "balance_pct" \notin DOMAIN effect THEN 0
         ELSE IF bpct < 0 /\ bfloor = 0 /\ u.balance > 0 THEN -1
         ELSE IF bpct > 0 /\ bfloor = 0 /\ u.balance > 0 THEN 1
         ELSE bfloor)
        + Get(effect, "balance", 0)

ApplyBalance(db, balance_delta) ==
    IF balance_delta = 0 THEN db
    ELSE AddLog([db EXCEPT !.user.balance = IF balance_delta < 0
                                            THEN Max(0, @ + balance_delta)
                                            ELSE @ + balance_delta],
                IF balance_delta >= 0 THEN "event_bonus" ELSE "event_penalty",
                balance_delta)

\* The experience change of an effect for the user row u.
XpDelta(u, effect) ==
    LET xpct == Get(effect, "xp_pct", 0)
        xfloor == (xp_to_level(u.level) * xpct) \div PctDen(effect)
    IN  (IF "xp_pct" \notin DOMAIN effect THEN 0
         ELSE IF xpct < 0 /\ xfloor = 0 /\ u.xp > 0 THEN -1
         ELSE IF xpct > 0 /\ xfloor = 0 THEN 1
         ELSE xfloor)
        + Get(effect, "xp", 0)

\* The negative branch without max(0, ...).
ApplyXpUnclamped(db, xp_delta) ==
    IF xp_delta = 0 THEN db
    ELSE AddLog(IF xp_delta >= 0
                THEN [db EXCEPT !.user = add_xp_and_levelup(@, xp_delta).user]
                ELSE [db EXCEPT !.user.xp = @ + xp_delta],
                IF xp_delta >= 0 THEN "event_bonus" ELSE "event_penalty", 0)

ApplyXp(db, xp_delta) ==
    IF xp_delta = 0 THEN db
    ELSE AddLog(IF xp_delta >= 0
                THEN [db EXCEPT !.user = add_xp_and_levelup(@, xp_delta).user]
                ELSE [db EXCEPT !.user.xp = Max(0, @ + xp_delta)],
                IF xp_delta >= 0 THEN "event_bonus" ELSE "event_penalty", 0)

ApplyBuff(db, code, duration_sec, effect, t) ==
    IF "buff" \notin DOMAIN effect THEN db
    ELSE AddLog([db EXCEPT !.buffs =
                    Append(@, [code |-> code, pending |-> FALSE,
                               expires_at |-> t + (IF duration_sec # 0 THEN duration_sec
                                                   ELSE DEFAULT_BUFF_DURATION),
                               payload |-> effect.buff])],
                "event_buff", 0)

EffectOnBalance(db, effect) == ApplyBalance(db, BalanceDelta(db.user, effect))

EffectOnXp(db, effect) == ApplyXp(db, XpDelta(db.user, effect))

\* apply_event_effect(session, user, event, effect, trigger) at time t
apply_event_effect(db, code, effect, t) ==
    ApplyBuff(EffectOnXp(EffectOnBalance(db, effect), effect),
              code, EventCatalog[code].duration_sec, effect, t)

\* apply_random_event with the shield test level >= 0 instead of level > 0.
ApplyEventShieldAtZero(db, code, ev, t) ==
    IF DOMAIN ev.effect = {} THEN [db |-> db, result |-> "title_only"]
    ELSE IF is_negative_event(ev) /\ db.boosts[EVENT_SHIELD_CODE] >= 0
    THEN [db |-> [db EXCEPT !.boosts[EVENT_SHIELD_CODE] = @ - 1], result |-> "shield_block"]
    ELSE IF ev.interactive /\ "interactive" \in DOMAIN ev.effect
    THEN [db |-> [db EXCEPT !.buffs =
                    Append(SelectSeq(@, LAMBDA b : ~(b.pending /\ b.code = code)),
                           [code |-> code, pending |-> TRUE,
                            expires_at |-> t + PENDING_EVENT_TTL,
                            payload |-> [options |-> ev.effect.interactive]])],
          result |-> "pending"]
    ELSE [db |-> apply_event_effect(db, code, ev.effect, t), result |-> "applied"]

\* apply_random_event for the row ev of the catalogue.
ApplyEvent(db, code, ev, t) ==
    IF DOMAIN ev.effect = {} THEN [db |-> db, result |-> "title_only"]
    ELSE IF is_negative_event(ev) /\ db.boosts[EVENT_SHIELD_CODE] > 0
    THEN [db |-> [db EXCEPT !.boosts[EVENT_SHIELD_CODE] = @ - 1], result |-> "shield_block"]
    ELSE IF ev.interactive /\ "interactive" \in DOMAIN ev.effect
    THEN [db |-> [db EXCEPT !.buffs =
                    Append(SelectSeq(@, LAMBDA b : ~(b.pending /\ b.code = code)),
                           [code |-> code, pending |-> TRUE,
                            expires_at |-> t + PENDING_EVENT_TTL,
                            payload |-> [options |-> ev.effect.interactive]])],
          result |-> "pending"]
    ELSE [db |-> apply_event_effect(db, code, ev.effect, t), result |-> "applied"]

\* apply_random_event(session, user, event, trigger): the database after it and
\* what it announced.
apply_random_event(db, code, t) == ApplyEvent(db, code, EventCatalog[code], t)

\* trigger_random_event(session, user, trigger, probability, stats): roll is the
\* outcome of random.random() <= probability, pick the event the draw returns.
trigger_random_event(db, roll, pick, t) ==
    IF ~roll THEN [db |-> db, result |-> "none"]
    ELSE IF has_pending_interactive_event(db) THEN [db |-> db, result |-> "none"]
    ELSE IF pick = None THEN [db |-> db, result |-> "none"]
    ELSE apply_random_event(db, pick, t)

\* The events the weighted draw returns in the behaviours explored: one of
\* each sort (bonus, penalty, interactive penalty, buff).
DrawnEvents == {"idea_spark", "coffee_spill", "spill_choice", "viral_post"}

PicksAmong(candidates) == IF candidates = {} THEN {None} ELSE candidates \cap DrawnEvents

\* The picks a roll can come with: an event the draw can return, None when the
\* roll fails or nothing can be drawn.
EventPicks(db, stats, roll) ==
    IF roll /\ ~has_pending_interactive_event(db)
    THEN PicksAmong(pick_random_event(db, stats)) ELSE {None}

(* ------------------------------------------------------------------ *)
(* FSM context (aiogram FSMContext of the player)                       *)
(* ------------------------------------------------------------------ *)
\* The chats the player talks to the bot in: each has its own FSM context.
\* The menus are used in the main chat; the other chat holds an order
\* confirmation the player left open.
Chats == {1, 2}

MainChat == 1

\* state.clear(): no state and no data.  A context keeps the data keys its
\* state reads; every state sets them on entry, so a key left by an earlier
\* state is never read and is not kept.
FsmClear ==
    [state |-> None, order_ids |-> {}, order_id |-> 0, req |-> 0, boost_ids |-> {},
     boost_id |-> None, skill_codes |-> {}, gain |-> 0, total_earned |-> -1,
     quest_choices |-> {}, active_quest |-> None]

(* ------------------------------------------------------------------ *)
(* OrderLifecycle                                                       *)
(* ------------------------------------------------------------------ *)
IsActive(o) == ~o.finished /\ ~o.canceled

ActiveOrders(db) == {o \in db.orders : IsActive(o)}

\* ensure_no_active_order(session, user)
ensure_no_active_order(db) == ActiveOrders(db) = {}

NoOrder ==
    [id |-> 0, order_id |-> 0, progress_clicks |-> 0, required_clicks |-> 0, started_at |-> 0,
     finished |-> FALSE, canceled |-> FALSE, reward_snapshot_mul |-> 0, is_special |-> FALSE]

FirstOf(rows) ==
    IF rows = {} THEN NoOrder ELSE CHOOSE o \in rows : \A p \in rows : o.id <= p.id

\* get_active_order(session, user): the first matching row, NoOrder (id 0)
\* without one.
get_active_order(db) == FirstOf(ActiveOrders(db))

\* No trend_order row in global_state.
NoTrend == [order_id |-> 0, valid_until |-> 0, reward_mul |-> 1]

\* get_trend(session): the trend in force at t, and the database after the
\* call (an expired trend row is deleted).
get_trend(db, t) ==
    IF db.trend = NoTrend THEN [trend |-> NoTrend, db |-> db]
    ELSE IF db.trend.valid_until <= t
    THEN [trend |-> NoTrend, db |-> [db EXCEPT !.trend = NoTrend]]
    ELSE [trend |-> db.trend, db |-> db]

\* The orders _render_orders_page offers (one page holds the catalogue).
OfferedOrders(db, t) ==
    {o \in OrderIds :
        /\ OrderCatalog[o].min_level <= db.user.level
        /\ \/ ~OrderCatalog[o].is_special
           \/ db.user.last_special_order_at = -1
           \/ db.user.last_special_order_at \div SECONDS_PER_DAY < t \div SECONDS_PER_DAY}

\* _render_orders_page(message, state, ...)
render_orders_page(db, t) ==
    [db |-> get_trend(db, t).db,
     fsm |-> [FsmClear EXCEPT !.state = "orders_browsing", !.order_ids = OfferedOrders(db, t)],
     out |-> "orders_page"]

\* orders_root: process_offline_income, then the page.
orders_root(db, f, t) == render_orders_page(process_offline_income(db, t), t)

\* choose_order once get_user_stats has answered gs.
ConfirmOrder(gs, order_id) ==
    [db |-> gs.db,
     fsm |-> [FsmClear EXCEPT
                 !.state = "orders_confirm", !.order_id = order_id,
                 !.req = snapshot_required_clicks(OrderCatalog[order_id].base_clicks,
                                                  gs.db.user.level, gs.stats.req_clicks_pct)],
     out |-> "order_confirm"]

\* choose_order in OrdersState.browsing, for an offered order id.
choose_order(db, f, order_id, t) ==
    IF ~ensure_no_active_order(db) THEN [db |-> db, fsm |-> f, out |-> "order_already"]
    ELSE ConfirmOrder(get_user_stats(db, t), order_id)

\* The reward multiplier take_order snapshots, in 1/10000.
RewardSnapshot(stats, order_id, trend_info) ==
    stats.reward_mul_total
    * (IF OrderCatalog[order_id].is_special THEN SPECIAL_ORDER_REWARD_MUL ELSE 1)
    * OrderCatalog[order_id].reward_multiplier
    * (IF trend_info # NoTrend /\ trend_info.order_id = order_id
       THEN trend_info.reward_mul ELSE 1)

\* The user_orders row take_order adds.
NewUserOrder(id, order_id, req, initial_progress, reward_snapshot, t) ==
    [id |-> id, order_id |-> order_id, progress_clicks |-> initial_progress,
     required_clicks |-> req, started_at |-> t, finished |-> FALSE, canceled |-> FALSE,
     reward_snapshot_mul |-> reward_snapshot, is_special |-> OrderCatalog[order_id].is_special]

\* A free start that grants the whole of the required clicks.
InitialProgressWhole(stats, req, free_roll) ==
    IF stats.free_order_chance > 0 /\ free_roll THEN req ELSE 0

\* The progress a new order starts with.
InitialProgress(stats, req, free_roll) ==
    IF stats.free_order_chance > 0 /\ free_roll
    THEN Min(req, Max(1, Round(req * FREE_ORDER_PROGRESS_PCT, 100)))
    ELSE 0

\* The end of take_order: the row is added, a special order stamps the user.
AddOrder(db, row, t) ==
    [db |-> [db EXCEPT !.orders = @ \cup {row},
                       !.user.last_special_order_at = IF row.is_special THEN t ELSE @],
     fsm |-> FsmClear, out |-> "order_taken"]

\* take_order once get_user_stats has answered gs and get_trend tr.
TakeWith(gs, tr, f, free_roll, id, t) ==
    AddOrder(tr.db,
             NewUserOrder(id, f.order_id, f.req, InitialProgress(gs.stats, f.req, free_roll),
                          RewardSnapshot(gs.stats, f.order_id, tr.trend), t),
             t)

TakeWithStats(gs, f, free_roll, id, t) == TakeWith(gs, get_trend(gs.db, t), f, free_roll, id, t)

\* take_order without its ensure_no_active_order check.
take_order_unchecked(db, f, free_roll, id, t) ==
    TakeWithStats(get_user_stats(db, t), f, free_roll, id, t)

\* take_order in OrdersState.confirm; free_roll: random.random() < free_chance;
\* id: the primary key the new row gets.
take_order(db, f, free_roll, id, t) ==
    IF ~ensure_no_active_order(db) THEN [db |-> db, fsm |-> FsmClear, out |-> "order_already"]
    ELSE TakeWithStats(get_user_stats(db, t), f, free_roll, id, t)

\* A cancel that also charges the player.
CancelRowCharged(db, active) ==
    IF active.id = 0 THEN [db |-> db, out |-> "no_active_order"]
    ELSE [db |-> [db EXCEPT !.orders = (@ \ {active}) \cup {[active EXCEPT !.canceled = TRUE]},
                            !.user.balance = Max(0, @ - 1)],
          out |-> "order_canceled"]

CancelRow(db, active) ==
    IF active.id = 0 THEN [db |-> db, out |-> "no_active_order"]
    ELSE [db |-> [db EXCEPT !.orders = (@ \ {active}) \cup {[active EXCEPT !.canceled = TRUE]}],
          out |-> "order_canceled"]

\* profile_cancel_order
profile_cancel_order(db) == CancelRow(db, get_active_order(db))

(* ------------------------------------------------------------------ *)
(* Skills                                                               *)
(* ------------------------------------------------------------------ *)
\* get_available_skills(session, user)
get_available_skills(db) ==
    {s \in SkillCodes : SkillCatalog[s].min_level <= db.user.level /\ s \notin db.skills}

Milestones(prev_level, level) ==
    {lvl \in (prev_level + 1)..level :
        lvl >= SKILL_LEVEL_INTERVAL /\ lvl % SKILL_LEVEL_INTERVAL = 0}

PromptSkills(f, skills) ==
    IF skills = {} THEN f
    ELSE [FsmClear EXCEPT !.state = "skills_picking", !.skill_codes = skills]

\* maybe_prompt_skill_choice: the FSM context after it.  The sample of up to
\* three available skills is all of them here (the catalogue holds two); the
\* stored list is kept as the set a reply index picks from.
maybe_prompt_skill_choice(db, f, prev_level, levels_gained) ==
    IF levels_gained <= 0 \/ Milestones(prev_level, db.user.level) = {} THEN f
    ELSE PromptSkills(f, get_available_skills(db))

\* pick_skill in SkillsState.picking with a valid index: code is the skill at it.
pick_skill(db, code) ==
    IF code \in db.skills THEN db
    ELSE AddLog([db EXCEPT !.skills = @ \cup {code}], "skill_pick", 0)

(* ------------------------------------------------------------------ *)
(* Click                                                                *)
(* ------------------------------------------------------------------ *)
\* The draws random can produce for a trigger_random_event call made on db:
\* <<roll, pick>>, pick being None when nothing is drawn.
EventDraws(db, stats) ==
    {<<FALSE, None>>} \cup {<<TRUE, p>> : p \in EventPicks(db, stats, TRUE)}

\* Whether a draw made an event happen.
Drawn(draw) == draw[1] /\ draw[2] # None

EventOutcome(r, draw) ==
    [db |-> r.db, result |-> r.result, drawn |-> IF Drawn(draw) THEN 1 ELSE 0]

\* What one trigger_random_event call can do to db: the database after it,
\* what it announced, and whether an event was drawn.
EventOutcomes(db, stats, t) ==
    {EventOutcome(trigger_random_event(db, d[1], d[2], t), d) : d \in EventDraws(db, stats)}

\* No trigger_random_event call.
NoEvent(db) == [db |-> db, result |-> "none", drawn |-> 0]

NoFinish == [id |-> 0, reward_base |-> 0, reward |-> 0, xp_gain |-> 0]

\* A completion branch that pays by the reward multiplier of the player at
\* the time of the click instead of the one stored on the order.
FinishAmountsAmbient(active, stats, t) ==
    [id |-> active.id,
     reward_base |-> finish_order_reward(active.required_clicks,
                                         RewardSnapshot(stats, active.order_id, NoTrend)),
     reward |-> finish_order_reward(active.required_clicks,
                                    RewardSnapshot(stats, active.order_id, NoTrend)),
     xp_gain |-> Round(Round(active.required_clicks, 10) * (100 + stats.xp_pct), 100)]

\* The completion branch of handle_click: reward and experience of the
\* order, from the values stored on its row and the stats read at the start
\* of the handler.
FinishAmounts(active, stats, t) ==
    LET reward_base == finish_order_reward(active.required_clicks, active.reward_snapshot_mul)
        high_bonus_pct == IF OrderCatalog[active.order_id].min_level >= HIGH_ORDER_MIN_LEVEL
                          THEN stats.high_order_reward_pct ELSE 0
        reward1 == IF high_bonus_pct > 0 THEN Round(reward_base * (100 + high_bonus_pct), 100)
                   ELSE reward_base
        rush_applied == stats.rush_reward_pct > 0
                        /\ Max(0, t - active.started_at) <= FAST_ORDER_SECONDS
    IN  [id |-> active.id,
         reward_base |-> reward_base,
         reward |-> IF rush_applied THEN Round(reward1 * (100 + stats.rush_reward_pct), 100)
                    ELSE reward1,
         xp_gain |-> Round(Round(active.required_clicks, 10) * (100 + stats.xp_pct), 100)]

\* The end of the completion branch: the skill prompt and the daily task.
FinishAnswer(d2, f, prev_level, levels_gained, amt, t) ==
    [db |-> daily_task_on_event(d2, "daily_orders", 1, t),
     fsm |-> maybe_prompt_skill_choice(d2, f, prev_level, levels_gained),
     finish |-> amt]

\* A completion branch that pays and logs but leaves the order Active.
FinishPaidStaysActive(db, f, active, amt, lv, t) ==
    FinishAnswer(AddLog([db EXCEPT !.user = lv.user], "order_finish", amt.reward),
                 f, db.user.level, lv.levels_gained, amt, t)

\* The completion branch once add_xp_and_levelup has answered lv: the order is
\* marked finished and the reward is logged.
FinishPaid(db, f, active, amt, lv, t) ==
    FinishAnswer(AddLog([db EXCEPT !.user = lv.user,
                                   !.orders = (@ \ {active})
                                              \cup {[active EXCEPT !.finished = TRUE]}],
                        "order_finish", amt.reward),
                 f, db.user.level, lv.levels_gained, amt, t)

FinishWith(db, f, active, amt, t) ==
    FinishPaid(db, f, active, amt,
               add_xp_and_levelup([db.user EXCEPT !.balance = @ + amt.reward,
                                                  !.orders_completed = @ + 1],
                                  amt.xp_gain),
               t)

\* The completion branch of handle_click up to the event after completion:
\* active already carries the new progress.
FinishOrder(db, f, active, stats, t) ==
    FinishWith(db, f, active, FinishAmounts(active, stats, t), t)

\* handle_click without an active order, after process_offline_income.
ClickNoOrder(d0, f) ==
    [db |-> d0, fsm |-> f, out |-> "no_active_order", finish |-> NoFinish,
     event |-> <<"none", "none">>, drawn |-> 0]

ClickCounted(gs, cp, t) ==
    daily_task_on_event([gs.db EXCEPT !.user.clicks_total = @ + cp], "daily_clicks", cp, t)

ClickStep(d2, stats, cp, active) ==
    [db |-> d2, stats |-> stats, cp |-> cp, active |-> active,
     due |-> d2.user.clicks_total % RANDOM_EVENT_CLICK_INTERVAL = 0]

ClickStats(gs, active, t) ==
    ClickStep(ClickCounted(gs, Max(1, gs.stats.cp), t), gs.stats, Max(1, gs.stats.cp), active)

\* handle_click with an active order up to the every-twentieth-click event:
\* stats, clicks_total and the daily task.
ClickStart(d0, t) == ClickStats(get_user_stats(d0, t), get_active_order(d0), t)

\* A progress update that also refreshes the reward snapshot of the order
\* from the stats of the click.
ClickProgressResnapshot(b, ev) ==
    [db |-> [ev.db EXCEPT
                !.orders = (@ \ {b.active})
                           \cup {[b.active EXCEPT
                                     !.progress_clicks =
                                         Min(b.active.required_clicks, @ + b.cp),
                                     !.reward_snapshot_mul =
                                         RewardSnapshot(b.stats, b.active.order_id, NoTrend)]}],
     stats |-> b.stats,
     active |-> [b.active EXCEPT
                    !.progress_clicks = Min(b.active.required_clicks, @ + b.cp),
                    !.reward_snapshot_mul =
                        RewardSnapshot(b.stats, b.active.order_id, NoTrend)],
     event |-> ev.result, drawn |-> ev.drawn]

\* The progress update, after the every-twentieth-click event did ev.
ClickProgress(b, ev) ==
    [db |-> [ev.db EXCEPT
                !.orders = (@ \ {b.active})
                           \cup {[b.active EXCEPT
                                     !.progress_clicks =
                                         Min(b.active.required_clicks, @ + b.cp)]}],
     stats |-> b.stats,
     active |-> [b.active EXCEPT !.progress_clicks = Min(b.active.required_clicks, @ + b.cp)],
     event |-> ev.result, drawn |-> ev.drawn]

ClickDone(p, fin, ev2) ==
    [db |-> ev2.db, fsm |-> fin.fsm, out |-> "order_done", finish |-> fin.finish,
     event |-> <<p.event, ev2.result>>, drawn |-> p.drawn + ev2.drawn]

ClickFinish(p, fin, t) == {ClickDone(p, fin, ev2) : ev2 \in EventOutcomes(fin.db, p.stats, t)}

\* handle_click from the progress update on: the order is completed or not.
ClickEnd(p, f, t) ==
    IF p.active.progress_clicks >= p.active.required_clicks
    THEN ClickFinish(p, FinishOrder(p.db, f, p.active, p.stats, t), t)
    ELSE {[db |-> p.db, fsm |-> f, out |-> "click", finish |-> NoFinish,
           event |-> <<p.event, "none">>, drawn |-> p.drawn]}

ClickEvent(b, f, t) ==
    UNION {ClickEnd(ClickProgress(b, ev), f, t) :
              ev \in (IF b.due THEN EventOutcomes(b.db, b.stats, t) ELSE {NoEvent(b.db)})}

ClickFrom(d0, f, t) ==
    IF get_active_order(d0).id = 0 THEN {ClickNoOrder(d0, f)}
    ELSE ClickEvent(ClickStart(d0, t), f, t)

\* handle_click past the rate limiter: what the handler can do, one outcome
\* for each result of its two random draws (the every-twentieth-click event
\* and the event after a completion).
handle_click(db, f, t) == ClickFrom(process_offline_income(db, t), f, t)

(* ------------------------------------------------------------------ *)
(* RateLimiter and RateLimitMiddleware                                  *)
(* ------------------------------------------------------------------ *)
\* The while loop of RateLimiter.allow: entries older than the window leave.
RECURSIVE DropOld(_, _)
DropOld(dq, t) ==
    IF dq # <<>> /\ t - Head(dq) > RATE_WINDOW THEN DropOld(Tail(dq), t) ELSE dq

\* The admission test with len(dq) > limit_per_sec instead of >=.
AdmitOneMore(dq1, limit_per_sec, t) ==
    IF Len(dq1) > limit_per_sec THEN [ok |-> FALSE, events |-> dq1]
    ELSE [ok |-> TRUE, events |-> Append(dq1, t)]

Admit(dq1, limit_per_sec, t) ==
    IF Len(dq1) >= limit_per_sec THEN [ok |-> FALSE, events |-> dq1]
    ELSE [ok |-> TRUE, events |-> Append(dq1, t)]

\* RateLimiter.allow(user_id, limit_per_sec, now): the verdict and the deque after.
allow(dq, limit_per_sec, t) == Admit(DropOld(dq, t), limit_per_sec, t)

LimitFrom(gs) ==
    [limit |-> Max(1, Min(MAX_CLICK_LIMIT, BASE_CLICK_LIMIT + gs.stats.ratelimit_plus)),
     db |-> gs.db]

\* get_user_click_limit(tg_id): the limit, and the database its session commits.
get_user_click_limit(db, t) == LimitFrom(get_user_stats(db, t))

(* ------------------------------------------------------------------ *)
(* PrestigeEngine                                                       *)
(* ------------------------------------------------------------------ *)
\* calc_total_earned(session, user)
calc_total_earned(db) ==
    SumSeq([i \in DOMAIN db.log |->
               IF db.log[i].type \in EarningTypes /\ db.log[i].amount > 0
               THEN db.log[i].amount ELSE 0])

\* calc_prestige_gain rounding the square root to the nearest integer.
calc_prestige_gain_rounded(total) ==
    IF total <= 0 THEN 0 ELSE (FloorSqrt(4 * total, PRESTIGE_GAIN_DIVISOR) + 1) \div 2

\* calc_prestige_gain(session, user, total_earned=total)
calc_prestige_gain(total) ==
    IF total <= 0 THEN 0 ELSE FloorSqrt(total, PRESTIGE_GAIN_DIVISOR)

EmptyEquipment == [s \in Slots |-> None]

\* perform_prestige_reset without its delete of the user_buffs rows.
perform_prestige_reset_keeps_buffs(db, gain) ==
    [AddLog([db EXCEPT !.prestige.reputation = @ + Max(0, gain), !.prestige.resets = @ + 1],
            "prestige_reset", 0)
     EXCEPT !.user.balance = START_BALANCE,
            !.user.cp_base = 1,
            !.user.reward_mul = 0,
            !.user.passive_mul = 0,
            !.user.level = 1,
            !.user.xp = 0,
            !.user.orders_completed = 0,
            !.user.clicks_total = 0,
            !.user.passive_income_collected = 0,
            !.boosts = [c \in BoostCodes |-> 0],
            !.team = [c \in TeamCodes |-> 0],
            !.items = {},
            !.skills = {},
            !.quests = NoQuests,
            !.orders = {},
            !.equipment = EmptyEquipment]

\* perform_prestige_reset(session, user, gain, total_earned)
perform_prestige_reset(db, gain) ==
    [AddLog([db EXCEPT !.prestige.reputation = @ + Max(0, gain), !.prestige.resets = @ + 1],
            "prestige_reset", 0)
     EXCEPT !.user.balance = START_BALANCE,
            !.user.cp_base = 1,
            !.user.reward_mul = 0,
            !.user.passive_mul = 0,
            !.user.level = 1,
            !.user.xp = 0,
            !.user.orders_completed = 0,
            !.user.clicks_total = 0,
            !.user.passive_income_collected = 0,
            !.boosts = [c \in BoostCodes |-> 0],
            !.team = [c \in TeamCodes |-> 0],
            !.items = {},
            !.buffs = <<>>,
            !.skills = {},
            !.quests = NoQuests,
            !.orders = {},
            !.equipment = EmptyEquipment]

StudioWith(d1, f, total_earned, gain) ==
    IF d1.user.level < STUDIO_MIN_LEVEL THEN [db |-> d1, fsm |-> f, out |-> "studio_locked"]
    ELSE IF gain > 0
    THEN [db |-> d1,
          fsm |-> [FsmClear EXCEPT !.state = "studio_confirm", !.gain = gain,
                                   !.total_earned = total_earned],
          out |-> "studio_confirm"]
    ELSE [db |-> d1, fsm |-> f, out |-> "studio_info"]

StudioPage(d1, f, total_earned) == StudioWith(d1, f, total_earned, calc_prestige_gain(total_earned))

StudioFrom(d1, f) == StudioPage(d1, f, calc_total_earned(d1))

\* show_studio without the passive accrual it starts with.
show_studio_as_found(db, f, t) == StudioFrom(db, f)

\* show_studio
show_studio(db, f, t) == StudioFrom(process_offline_income(db, t), f)

ResetWith(db, gain) ==
    [db |-> perform_prestige_reset(db, gain), fsm |-> FsmClear, out |-> "studio_done",
     gain |-> gain]

\* confirm_studio in StudioState.confirm
confirm_studio(db, f) ==
    ResetWith(db, calc_prestige_gain(IF f.total_earned # -1 THEN f.total_earned
                                     ELSE calc_total_earned(db)))

\* admin_prestige_preview: the rows its session commits and the message.
admin_prestige_preview(db) ==
    [db |-> db, total |-> calc_total_earned(db),
     gain |-> calc_prestige_gain(calc_total_earned(db))]

(* ------------------------------------------------------------------ *)
(* Admin commands                                                       *)
(* ------------------------------------------------------------------ *)
\* admin_give_shield with /give_shield amount, amount > 0
admin_give_shield(db, amount) ==
    [db EXCEPT !.boosts[EVENT_SHIELD_CODE] = @ + amount]

\* admin_test_event_choice
admin_test_event_choice(db, t) == apply_random_event(db, "spill_choice", t)

TrendAmong(orders, current) ==
    IF {o \in orders : current = NoTrend \/ o # current.order_id} = {} THEN orders
    ELSE {o \in orders : current = NoTrend \/ o # current.order_id}

\* roll_new_trend(session, user_level_hint): the orders the trend can land on.
TrendCandidates(db, t) ==
    TrendAmong({o \in OrderIds : ~OrderCatalog[o].is_special
                                 /\ OrderCatalog[o].min_level <= Max(1, db.user.level)},
               get_trend(db, t).trend)

\* admin_roll_trend: order_id is the random.choice among the candidates.
admin_roll_trend(db, order_id, t) ==
    [db EXCEPT !.trend = [order_id |-> order_id, valid_until |-> t + TREND_DURATION_SECONDS,
                          reward_mul |-> TREND_REWARD_MUL]]

(* ------------------------------------------------------------------ *)
(* Shop: boosts                                                         *)
(* ------------------------------------------------------------------ *)
\* _boost_category(boost): BOOST_CATEGORY_BY_TYPE for the types of the catalogue.
boost_category(code) ==
    CASE BoostCatalog[code].type \in {"cp_add", "ratelimit"} -> "click"
      [] BoostCatalog[code].type \in {"reward", "free_order"} -> "economy"
      [] OTHER -> "passive"

BoostsPage(d1, category, out_msg) ==
    [db |-> d1,
     fsm |-> [FsmClear EXCEPT !.state = "shop_boosts",
                              !.boost_ids = {c \in BoostCodes : boost_category(c) = category}],
     out |-> out_msg]

\* shop_boosts then shop_boosts_select_category: render_boosts lists a category.
render_boosts(db, category, t) ==
    BoostsPage(process_offline_income(db, t), category, "boosts_page")

\* shop_choose_boost -> _handle_boost_selection for a listed boost; the locked
\* branch re-renders the list.
shop_choose_boost(db, f, code, t) ==
    IF db.user.level < BoostCatalog[code].min_level
    THEN BoostsPage(process_offline_income(db, t), boost_category(code), "boost_locked")
    ELSE [db |-> db,
          fsm |-> [FsmClear EXCEPT !.state = "shop_confirm_boost", !.boost_id = code],
          out |-> "boost_prompt"]

\* The purchase: balance, level, log and the daily task.
BuyBoost(d0, bid, cost, t) ==
    daily_task_on_event(AddLog([d0 EXCEPT !.user.balance = @ - cost, !.boosts[bid] = @ + 1],
                               "buy_boost", -cost),
                        "daily_shop", 1, t)

BuyAt(d0, bid, cost, t) ==
    IF d0.user.balance >= cost
    THEN BoostsPage(process_offline_income(BuyBoost(d0, bid, cost, t), t),
                    boost_category(bid), "purchase_ok")
    ELSE BoostsPage(process_offline_income(d0, t), boost_category(bid), "insufficient_funds")

BuyFrom(d0, bid, t) ==
    BuyAt(d0, bid, upgrade_cost(BoostCatalog[bid].base_cost, d0.boosts[bid] + 1), t)

\* shop_buy_boost in ShopState.confirm_boost, with the render_boosts that ends it.
shop_buy_boost(db, f, t) == BuyFrom(process_offline_income(db, t), f.boost_id, t)

(* ------------------------------------------------------------------ *)
(* Equipment shop and team                                              *)
(* ------------------------------------------------------------------ *)
\* A context with one more data key than FsmClear keeps: the state that
\* reads the key sets it on entry.
FsmWith(state, key, value) ==
    [k \in DOMAIN FsmClear \cup {key} |->
        IF k = "state" THEN state ELSE IF k = key THEN value ELSE FsmClear[k]]

\* int(round(a * b / c)) for a, b >= 0 and c > 0, the product formed by
\* MulDivQR.
RoundMul(a, b, c) ==
    LET h == MulDivQR(a, b, c)
    IN  IF 2 * h.r < c THEN h.q
        ELSE IF 2 * h.r > c THEN h.q + 1
        ELSE IF h.q % 2 = 0 THEN h.q ELSE h.q + 1

\* apply_percentage_discount(value, pct, cap=cap) for the value num / den:
\* pct and cap in hundredths.
apply_percentage_discount(num, den, pct, cap) ==
    IF num <= 0 THEN Round(num, den)
    ELSE Max(1, RoundMul(num, 100 - Clamp(0, 99, Min(pct, cap)), den * 100))

\* get_next_items_for_user: the first item of every slot that is not owned,
\* among the items of the player's level; the catalogue keeps one item a slot.
get_next_items_for_user(db) ==
    {i \in ItemCodes : ItemCatalog[i].min_level <= db.user.level /\ i \notin db.items}

\* render_items once the passive income is applied.
ItemsPage(d1, out_msg) ==
    [db |-> d1,
     fsm |-> FsmWith("shop_equipment", "item_ids", get_next_items_for_user(d1)),
     out |-> out_msg, price |-> 0]

\* render_items(message, state)
render_items(db, out_msg, t) == ItemsPage(get_user_stats(process_offline_income(db, t), t).db, out_msg)

\* shop_choose_item for a listed item.
shop_choose_item(db, f, item, t) ==
    [db |-> get_user_stats(db, t).db,
     fsm |-> FsmWith("shop_confirm_item", "item_id", item),
     out |-> "item_prompt", price |-> 0]

\* The price of an item after the shop discount.
ItemPrice(item, stats) ==
    apply_percentage_discount(ItemCatalog[item].price, 1, stats.shop_discount_pct,
                              SHOP_DISCOUNT_CAP)

\* The item is paid for whatever the balance is.
BuyItemOnCredit(gs, item, price, t) ==
    [(render_items(
        daily_task_on_event(AddLog([gs.db EXCEPT !.user.balance = @ - price,
                                                 !.items = @ \cup {item}],
                                   "buy_item", -price),
                            "daily_shop", 1, t),
        "purchase_ok", t)) EXCEPT !.price = price]

\* shop_buy_item once get_user_stats has answered gs and the price is known.
BuyItemAt(gs, item, price, t) ==
    [(IF item \in gs.db.items THEN render_items(gs.db, "already_bought", t)
      ELSE IF gs.db.user.balance < price THEN render_items(gs.db, "insufficient_funds", t)
      ELSE render_items(
               daily_task_on_event(AddLog([gs.db EXCEPT !.user.balance = @ - price,
                                                        !.items = @ \cup {item}],
                                          "buy_item", -price),
                                   "daily_shop", 1, t),
               "purchase_ok", t)) EXCEPT !.price = price]

BuyItemFrom(gs, item, t) == BuyItemAt(gs, item, ItemPrice(item, gs.stats), t)

\* shop_buy_item in ShopState.confirm_item, with the render_items that ends it.
shop_buy_item(db, f, t) ==
    BuyItemFrom(get_user_stats(process_offline_income(db, t), t), f.item_id, t)

\* render_team: the members of the player's level are listed; without one
\* the state is cleared.
render_team(db, t) ==
    LET d1 == get_user_stats(process_offline_income(db, t), t).db
        members == {m \in TeamCodes : d1.user.level >= Max(1, TeamCatalog[m].min_level)}
    IN  [db |-> d1,
         fsm |-> IF members = {} THEN FsmClear
                 ELSE FsmWith("team_browsing", "member_ids", members),
         out |-> IF members = {} THEN "team_locked" ELSE "team_page", price |-> 0]

\* team_choose for a listed member.
team_choose(db, f, member, t) ==
    IF db.user.level < TeamCatalog[member].min_level
    THEN [render_team(db, t) EXCEPT !.out = "member_locked"]
    ELSE [db |-> db, fsm |-> FsmWith("team_confirm", "member_id", member),
          out |-> "member_prompt", price |-> 0]

\* The cost of the next level of a member: base_cost * 1.22 ** lvl after the
\* team discount.
TeamCost(member, lvl, stats) ==
    apply_percentage_discount(TeamCatalog[member].base_cost * Pow(61, lvl), Pow(50, lvl),
                              stats.team_upgrade_discount_pct, TEAM_DISCOUNT_CAP)

\* team_upgrade once get_user_stats has answered gs and the cost is known.
UpgradeAt(gs, member, cost) ==
    [db |-> IF gs.db.user.balance < cost THEN gs.db
            ELSE AddLog([gs.db EXCEPT !.user.balance = @ - cost, !.team[member] = @ + 1],
                        "team_upgrade", -cost),
     fsm |-> FsmWith("team_confirm", "member_id", member),
     out |-> IF gs.db.user.balance < cost THEN "insufficient_funds" ELSE "upgrade_ok",
     price |-> cost]

\* team_upgrade in TeamState.confirm.
team_upgrade(db, f, t) ==
    LET d1 == process_offline_income(db, t)
    IN  IF d1.user.level < TeamCatalog[f.member_id].min_level
        THEN [render_team(d1, t) EXCEPT !.out = "member_locked"]
        ELSE UpgradeAt(get_user_stats(d1, t), f.member_id,
                       TeamCost(f.member_id, d1.team[f.member_id], get_user_stats(d1, t).stats))

(* ------------------------------------------------------------------ *)
(* Interactive events                                                   *)
(* ------------------------------------------------------------------ *)
FirstIndex(idx) == IF idx = {} THEN 0 ELSE CHOOSE i \in idx : \A j \in idx : i <= j

\* get_pending_event_buff(session, user, event_code): index of the row, 0 without one.
get_pending_event_buff(db, code) ==
    FirstIndex({i \in DOMAIN db.buffs : db.buffs[i].pending /\ db.buffs[i].code = code})

\* session.delete(pending): the row at index row leaves.
DeleteBuff(d1, row) ==
    [db |-> [d1 EXCEPT !.buffs = [k \in 1..(Len(@) - 1) |-> IF k < row THEN @[k] ELSE @[k + 1]]],
     out |-> "choice_applied"]

ChoiceApplied(d1, code) == DeleteBuff(d1, get_pending_event_buff(d1, code))

ChoiceWith(db, code, options, choice_idx, t) ==
    IF choice_idx < 0 \/ choice_idx >= Len(options) THEN [db |-> db, out |-> "bad_choice"]
    ELSE ChoiceApplied(apply_event_effect(db, code, options[choice_idx + 1].effect, t), code)

ChoiceAt(db, code, i, choice_idx, t) ==
    IF i = 0 THEN [db |-> db, out |-> "event_already_handled"]
    ELSE ChoiceWith(db, code, db.buffs[i].payload.options, choice_idx, t)

\* A resolve that applies the effect and leaves the pending row.
handle_event_choice_callback_keeps(db, code, choice_idx, t) ==
    IF get_pending_event_buff(db, code) = 0 THEN [db |-> db, out |-> "event_already_handled"]
    ELSE IF choice_idx >= Len(db.buffs[get_pending_event_buff(db, code)].payload.options)
    THEN [db |-> db, out |-> "bad_choice"]
    ELSE [db |-> apply_event_effect(
                     db, code,
                     db.buffs[get_pending_event_buff(db, code)].payload.options[choice_idx + 1].effect,
                     t),
          out |-> "choice_applied"]

\* handle_event_choice_callback for event_choice:<code>:<choice_idx> (0-based).
handle_event_choice_callback(db, code, choice_idx, t) ==
    ChoiceAt(db, code, get_pending_event_buff(db, code), choice_idx, t)

(* ------------------------------------------------------------------ *)
(* QuestFSM                                                             *)
(* ------------------------------------------------------------------ *)
\* UserQuest(stage=0, is_done=False, payload={})
NewQuest == [stage |-> 0, is_done |-> FALSE, payload |-> [k \in {} |-> 0]]

\* get_or_create_quest(session, user, code): the database with the row.
get_or_create_quest(db, code) ==
    IF code \in DOMAIN db.quests THEN db
    ELSE [db EXCEPT !.quests = [q \in DOMAIN @ \cup {code} |->
                                   IF q \in DOMAIN @ THEN @[q] ELSE NewQuest]]

\* quest_get_stage_payload(quest, definition): every payload key is present.
quest_get_stage_payload(payload, definition) ==
    [k \in DOMAIN payload
           \cup {definition.payload_keys[i] : i \in DOMAIN definition.payload_keys} |->
        Get(payload, k, 0)]

\* The loop of quest_choose_reward_key from the i-th key on; best: best_key
\* and best_value so far.
RECURSIVE BestKey(_, _, _, _)
BestKey(payload, keys, i, best) ==
    IF i > Len(keys) THEN best
    ELSE BestKey(payload, keys, i + 1,
                 IF Get(payload, keys[i], 0) > best.value
                 THEN [key |-> keys[i], value |-> Get(payload, keys[i], 0)]
                 ELSE best)

RewardKeyOf(best) == IF best.value > 0 THEN best.key ELSE "default"

\* quest_choose_reward_key(payload, definition)
quest_choose_reward_key(payload, definition) ==
    RewardKeyOf(BestKey(payload, definition.payload_keys, 1,
                        [key |-> "default", value |-> -999]))

\* quest_current_stage_key(quest, definition): None past the last stage.
quest_current_stage_key(quest, definition) ==
    IF 0 <= quest.stage /\ quest.stage < Len(definition.stage_keys)
    THEN definition.stage_keys[quest.stage + 1] ELSE None

\* A lookup that answers the first stage for every key.
quest_stage_index_first(definition, stage_key) == 0

\* quest_stage_index(definition, stage_key): -1 for None.
quest_stage_index(definition, stage_key) ==
    FirstIndex({i \in DOMAIN definition.stage_keys : definition.stage_keys[i] = stage_key}) - 1

\* An economy_logs row of type quest_reward, with the quest of its meta.
AddQuestLog(db, code, amount) ==
    [db EXCEPT !.log = Append(@, [type |-> "quest_reward", amount |-> amount, quest |-> code])]

\* The reward item of finalize_quest: owned from now on, and logged.
QuestItem(db, code, item_code) ==
    IF item_code \notin ItemCodes THEN db
    ELSE AddQuestLog([db EXCEPT !.items = @ \cup {item_code}], code, 0)

\* The end of quest_select and quest_playing after finalize_quest: a quest
\* state is cleared, a skill prompt is kept.
QuestFsm(f2) == IF f2.state \in {"quest_selecting", "quest_playing"} THEN FsmClear ELSE f2

\* finalize_quest once add_xp_and_levelup has answered lv.
QuestFinished(db, f, code, reward_key, reward_data, lv) ==
    [db |-> QuestItem(AddQuestLog([db EXCEPT !.user = lv.user,
                                             !.quests[code].is_done = TRUE,
                                             !.quests[code].stage = 999],
                                  code, reward_data.rub),
                      code, reward_data.item_code),
     fsm |-> QuestFsm(maybe_prompt_skill_choice([db EXCEPT !.user = lv.user], f,
                                                db.user.level, lv.levels_gained)),
     out |-> "quest_finish", quest |-> code, reward_key |-> reward_key]

\* finalize_quest once get_user_stats has answered gs.
QuestReward(gs, f, code, reward_key, reward_data) ==
    QuestFinished(gs.db, f, code, reward_key, reward_data,
                  add_xp_and_levelup([gs.db.user EXCEPT !.balance = @ + reward_data.rub],
                                     Round(reward_data.xp * (100 + gs.stats.xp_pct), 100)))

\* finalize_quest for the reward key chosen.
QuestRewardFor(d1, f, code, reward_key, t) ==
    QuestReward(get_user_stats(d1, t), f, code, reward_key,
                Get(QuestCatalog[code].rewards, reward_key, QuestCatalog[code].rewards.default))

\* quest.payload = quest_get_stage_payload(quest, definition)
SetPayload(db, code) ==
    [db EXCEPT !.quests[code].payload = quest_get_stage_payload(@, QuestCatalog[code])]

FinalizeWith(d1, f, code, t) ==
    QuestRewardFor(d1, f, code,
                   quest_choose_reward_key(d1.quests[code].payload, QuestCatalog[code]), t)

\* finalize_quest(session, user, quest, message, state, definition), called
\* after state.update_data(active_quest=None).
finalize_quest(db, f, code, t) ==
    FinalizeWith(SetPayload(db, code), [f EXCEPT !.active_quest = None], code, t)

\* The quests of the player's level.
UnlockedQuests(db) == {q \in QuestCodes : QuestCatalog[q].min_level <= db.user.level}

\* The loop of present_quest_selection: a row is made for every unlocked quest.
CreateUnlocked(db) ==
    [db EXCEPT !.quests = [q \in DOMAIN @ \cup UnlockedQuests(db) |->
                              IF q \in DOMAIN @ THEN @[q] ELSE NewQuest]]

\* present_quest_selection past its loop: available are the unlocked quests
\* that are not done.
QuestMenu(d1, available, unlocked_any) ==
    IF available # {}
    THEN [db |-> d1,
          fsm |-> [FsmClear EXCEPT !.state = "quest_selecting", !.quest_choices = available],
          out |-> "quest_select", quest |-> None, reward_key |-> None]
    ELSE [db |-> d1, fsm |-> FsmClear,
          out |-> IF unlocked_any THEN "quest_all_done" ELSE "quest_locked",
          quest |-> None, reward_key |-> None]

QuestMenuOf(d1) ==
    QuestMenu(d1, {q \in UnlockedQuests(d1) : ~d1.quests[q].is_done}, UnlockedQuests(d1) # {})

\* present_quest_selection(message, state, session, user)
present_quest_selection(db) == QuestMenuOf(CreateUnlocked(db))

\* quest_entry: process_offline_income, then the selection.
quest_entry(db, t) == present_quest_selection(process_offline_income(db, t))

\* The answer QUEST_ALREADY_DONE of quest_select and quest_playing, followed
\* by the selection.
QuestAlreadyDone(d1, code) ==
    [present_quest_selection(d1) EXCEPT !.out = "quest_already_done", !.quest = code]

QuestUnknown(db, f) ==
    [db |-> db, fsm |-> f, out |-> "quest_option_unknown", quest |-> None, reward_key |-> None]

\* quest_select once the payload keys are set: the quest starts at its stage.
SelectStage(d2, f, code, t) ==
    IF quest_current_stage_key(d2.quests[code], QuestCatalog[code]) = None
    THEN finalize_quest(d2, f, code, t)
    ELSE [db |-> d2,
          fsm |-> [FsmClear EXCEPT !.state = "quest_playing", !.active_quest = code,
                                   !.quest_choices = f.quest_choices],
          out |-> "quest_start", quest |-> code, reward_key |-> None]

\* quest_select once get_or_create_quest has answered.
SelectQuest(d1, f, code, t) ==
    IF d1.quests[code].is_done THEN QuestAlreadyDone(d1, code)
    ELSE SelectStage(SetPayload(d1, code), f, code, t)

\* quest_select in QuestState.selecting: code is the quest the typed name
\* stands for in the stored mapping, None for any other text.
quest_select(db, f, code, t) ==
    IF code \notin f.quest_choices THEN QuestUnknown(db, f)
    ELSE SelectQuest(get_or_create_quest(db, code), f, code, t)

\* quest_playing past the choice: the next stage.
NextStage(d2, f, code, index) ==
    [db |-> [d2 EXCEPT !.quests[code].stage =
                IF index >= 0 THEN index
                ELSE Min(@ + 1, Max(Len(QuestCatalog[code].stage_keys) - 1, 0))],
     fsm |-> [f EXCEPT !.active_quest = code],
     out |-> "quest_step", quest |-> code, reward_key |-> None]

\* quest_playing once the delta of the choice is added to the payload.
PlayChoice(d2, f, code, next_stage, t) ==
    IF next_stage = "finale" THEN finalize_quest(d2, f, code, t)
    ELSE NextStage(d2, f, code, quest_stage_index(QuestCatalog[code], next_stage))

\* payload[key] = payload.get(key, 0) + int(delta)
AddDelta(payload, delta) ==
    [k \in DOMAIN payload \cup DOMAIN delta |-> Get(payload, k, 0) + Get(delta, k, 0)]

ApplyDelta(d1, code, delta) ==
    [d1 EXCEPT !.quests[code].payload =
        AddDelta(quest_get_stage_payload(@, QuestCatalog[code]), delta)]

\* quest_playing at a stage with the options given; choice: the index of the
\* option whose text was typed, 0 for any other text.
PlayStage(d1, f, code, options, choice, t) ==
    IF choice \notin DOMAIN options THEN QuestUnknown(d1, f)
    ELSE PlayChoice(ApplyDelta(d1, code, options[choice].delta), f, code,
                    options[choice].next, t)

\* quest_playing without its test of quest.is_done.
PlayQuestUnchecked(d1, f, code, choice, t) ==
    IF quest_current_stage_key(d1.quests[code], QuestCatalog[code]) = None
    THEN finalize_quest(d1, f, code, t)
    ELSE PlayStage(d1, f, code, QuestCatalog[code].flow[d1.quests[code].stage + 1], choice, t)

\* quest_playing once get_or_create_quest has answered.
PlayQuest(d1, f, code, choice, t) ==
    IF d1.quests[code].is_done THEN QuestAlreadyDone(d1, code)
    ELSE IF quest_current_stage_key(d1.quests[code], QuestCatalog[code]) = None
    THEN finalize_quest(d1, f, code, t)
    ELSE PlayStage(d1, f, code, QuestCatalog[code].flow[d1.quests[code].stage + 1], choice, t)

\* quest_playing in QuestState.playing; choice -1 is the back button.
quest_playing(db, f, choice, t) ==
    IF choice = -1 THEN present_quest_selection(db)
    ELSE IF f.active_quest = None
    THEN [db |-> db, fsm |-> FsmClear, out |-> "menu", quest |-> None, reward_key |-> None]
    ELSE PlayQuest(get_or_create_quest(db, f.active_quest), f, f.active_quest, choice, t)

(* ------------------------------------------------------------------ *)
(* Initial states                                                       *)
(* ------------------------------------------------------------------ *)
\* The clock at the start: noon of day 3.
StartTime == 3 * SECONDS_PER_DAY + 43200

NoBoosts == [c \in BoostCodes |-> 0]

NoTeam == [c \in TeamCodes |-> 0]

BaseUser ==
    [balance |-> START_BALANCE, cp_base |-> 1, reward_mul |-> 0, passive_mul |-> 0,
     level |-> 1, xp |-> 0, last_seen |-> StartTime, clicks_total |-> 0,
     orders_completed |-> 0, passive_income_collected |-> 0,
     daily_task_date |-> StartTime \div SECONDS_PER_DAY, daily_task_state |-> FreshDaily,
     last_special_order_at |-> -1]

\* A canceled order left behind by earlier play.
OldOrder ==
    [NewUserOrder(1, 1, 80, 0, 10000, StartTime - 3600) EXCEPT
        !.progress_clicks = 19, !.canceled = TRUE]

\* Players the program can hold: a newcomer who clicked 19 times on an order
\* and canceled it; a level-4 player one order away from level 5, with a buff
\* about to expire; a level-20 player with one prestige behind, a buff, the
\* quick-start boost, and a trend rolled 23 hours ago.
Profiles ==
    { [user |-> [BaseUser EXCEPT !.clicks_total = 19],
       orders |-> {OldOrder}, boosts |-> NoBoosts, team |-> NoTeam, items |-> {},
       equipment |-> EmptyEquipment, skills |-> {}, buffs |-> <<>>,
       quests |-> NoQuests,
       prestige |-> [reputation |-> 0, resets |-> 0],
       log |-> <<>>, trend |-> NoTrend],
      [user |-> [BaseUser EXCEPT !.balance = 1300, !.level = 4, !.xp = 1595,
                                 !.clicks_total = 4, !.orders_completed = 12],
       orders |-> {OldOrder},
       boosts |-> [NoBoosts EXCEPT !.inspiration = 4, !.project_insurance = 1],
       team |-> [NoTeam EXCEPT !.junior = 1], items |-> {"monitor_t1"},
       equipment |-> [EmptyEquipment EXCEPT !.monitor = "monitor_t1"],
       skills |-> {}, quests |-> NoQuests,
       buffs |-> << [code |-> "viral_post", pending |-> FALSE,
                     expires_at |-> StartTime + 1, payload |-> [reward_pct |-> 10]] >>,
       prestige |-> [reputation |-> 0, resets |-> 0],
       log |-> << [type |-> "order_finish", amount |-> 1200],
                  [type |-> "buy_boost", amount |-> -400] >>,
       trend |-> NoTrend],
      [user |-> [BaseUser EXCEPT !.balance = 2500, !.level = 20, !.xp = 300,
                                 !.clicks_total = 8, !.orders_completed = 40],
       orders |-> {OldOrder},
       boosts |-> [NoBoosts EXCEPT !.inspiration = 4, !.reward_mastery = 1,
                                   !.deep_offline = 1, !.quick_briefs = 1],
       team |-> [NoTeam EXCEPT !.junior = 2], items |-> {"chair_t2", "phone_t1"},
       equipment |-> [EmptyEquipment EXCEPT !.chair = "chair_t2"],
       skills |-> {"web_master"}, quests |-> NoQuests,
       buffs |-> << [code |-> "perfect_flow", pending |-> FALSE,
                     expires_at |-> StartTime + 300, payload |-> [cp_pct |-> 15]] >>,
       prestige |-> [reputation |-> 1, resets |-> 1],
       log |-> << [type |-> "order_finish", amount |-> 2500],
                  [type |-> "passive", amount |-> 700],
                  [type |-> "quest_reward", amount |-> 1500],
                  [type |-> "buy_boost", amount |-> -1140] >>,
       trend |-> [order_id |-> 1, valid_until |-> StartTime + 3600,
                  reward_mul |-> TREND_REWARD_MUL]] }

\* The deque of the limiter when ten clicks were admitted in the current second.
FullWindow == [i \in 1..BASE_CLICK_LIMIT |-> StartTime]

\* The starts: each profile with an empty deque of the limiter, the level-4
\* player also with a full one.
Starts ==
    {<<p, <<>> >> : p \in Profiles} \cup {<<p,
    FullWindow>> : p \in {q \in Profiles : q.user.level = 4}}

\* The second chat: the newcomer chose order 1 there, the level-20 player
\* order 2, and the order waits for the confirmation.  The level-4 player uses
\* one chat.
SideOrder(p) == IF p.user.level = 1 THEN 1 ELSE IF p.user.level = 20 THEN 2 ELSE 0

SideConfirm(p, order_id) ==
    IF order_id = 0 THEN FsmClear
    ELSE [FsmClear EXCEPT !.state = "orders_confirm", !.order_id = order_id,
                          !.req = snapshot_required_clicks(OrderCatalog[order_id].base_clicks,
                                                           p.user.level,
                                                           Stats(p, StartTime).req_clicks_pct)]

SideChat(p) == SideConfirm(p, SideOrder(p))

NoHist ==
    [ticks |-> 0, clicks |-> 0, events |-> 0, orders |-> 1, takes |-> 0, buys |-> 0,
     admin |-> 0, resets |-> 0, cancels |-> 0, accepted |-> <<>>]

Init ==
    \E st \in Starts :
        /\ now = StartTime
        /\ user = st[1].user
        /\ user_orders = st[1].orders
        /\ user_boosts = st[1].boosts
        /\ user_team = st[1].team
        /\ user_items = st[1].items
        /\ user_equipment = st[1].equipment
        /\ user_skills = st[1].skills
        /\ user_buffs = st[1].buffs
        /\ user_quests = st[1].quests
        /\ prestige = st[1].prestige
        /\ economy_log = st[1].log
        /\ trend = st[1].trend
        /\ events = st[2]
        /\ fsm = [c \in Chats |-> IF c = MainChat THEN FsmClear ELSE SideChat(st[1])]
        /\ out = [msg |-> "start"]
        /\ hist = NoHist
        /\ admitted = <<>>
        /\ inflight = NoInflight

(* ------------------------------------------------------------------ *)
(* Actions                                                              *)
(* ------------------------------------------------------------------ *)
\* The lengths of time that pass between two messages.
TickSteps == {1, 432000}

\* Time passes.
Tick(d) ==
    /\ hist.ticks < MaxTicks
    /\ now' = now + d
    /\ hist' = [hist EXCEPT !.ticks = @ + 1]
    /\ UNCHANGED << user, user_orders, user_boosts, user_team, user_items, user_equipment,
                    user_skills, user_buffs, user_quests, prestige, economy_log, trend, events,
                    fsm, out,
                    admitted, inflight >>

\* The end of a handler answering in chat c: its session commits, its FSM
\* context is stored.
Answer(c, r) ==
    /\ Commit(r.db)
    /\ fsm' = [fsm EXCEPT ![c] = r.fsm]

\* The end of a handler that leaves the FSM context alone.
Reply(r) ==
    /\ Commit(r.db)
    /\ out' = [msg |-> r.out]
    /\ UNCHANGED fsm

\* cancel_any / back to the menu: state.clear().
BackToMenu ==
    /\ fsm[MainChat] # FsmClear
    /\ fsm' = [fsm EXCEPT ![MainChat] = FsmClear]
    /\ UNCHANGED << now, user, user_orders, user_boosts, user_team, user_items,
                    user_equipment, user_skills, user_buffs, user_quests, prestige,
                    economy_log, trend,
                    events, out, hist, admitted, inflight >>

\* The orders button.
OrdersRoot ==
    /\ hist.takes < MaxOrders
    /\ Answer(MainChat, orders_root(DB, fsm[MainChat], now))
    /\ UNCHANGED << now, events, out, hist, admitted, inflight >>

\* A number typed in OrdersState.browsing.
ChooseOrder(o) ==
    /\ fsm[MainChat].state = "orders_browsing"
    /\ hist.takes < MaxOrders
    /\ o \in fsm[MainChat].order_ids
    /\ Answer(MainChat, choose_order(DB, fsm[MainChat], o, now))
    /\ UNCHANGED << now, events, out, hist, admitted, inflight >>

\* What the history keeps of an acceptance: the stored values of the new row
\* and the reward multiplier of the player at that moment.
Acceptance(row, ambient) ==
    [id |-> row.id, required_clicks |-> row.required_clicks,
     reward_snapshot_mul |-> row.reward_snapshot_mul, ambient |-> ambient]

TakeAnswered(c, free_roll, r, stats) ==
    /\ free_roll => r.out = "order_taken" /\ stats.free_order_chance > 0
    /\ Answer(c, r)
    /\ out' = [msg |-> r.out]
    /\ hist' = [hist EXCEPT
           !.takes = @ + 1,
           !.orders = IF r.out = "order_taken" THEN @ + 1 ELSE @,
           !.accepted = IF r.out = "order_taken"
                        THEN Append(@, Acceptance(CHOOSE o \in r.db.orders :
                                                      o.id = hist.orders + 1,
                                                  stats.reward_mul_total))
                        ELSE @]

\* The take button in OrdersState.confirm in chat c.
TakeOrder(c, free_roll) ==
    /\ fsm[c].state = "orders_confirm"
    /\ hist.takes < MaxOrders
    /\ TakeAnswered(c, free_roll, take_order(DB, fsm[c], free_roll, hist.orders + 1, now),
                    Stats(DB, now))
    /\ UNCHANGED << now, events, admitted, inflight >>

\* handle_click answered r; ambient: the reward multiplier of the player when
\* the click arrived.
ClickAnswered(r, ambient) ==
    /\ hist.events + r.drawn <= MaxEvents
    /\ Len(r.db.buffs) <= MaxBuffs
    /\ Answer(MainChat, r)
    /\ out' = [msg |-> r.out, finish |-> r.finish, event |-> r.event, ambient |-> ambient]
    /\ hist' = [hist EXCEPT !.clicks = @ + 1, !.events = @ + r.drawn]

\* RateLimitMiddleware.__call__ once get_user_click_limit answered lim and
\* RateLimiter.allow answered a: the handler runs, or the message is answered
\* TOO_FAST and dropped.
RateLimited(lim, a, ambient) ==
    /\ events' = a.events
    /\ IF a.ok
       THEN \E r \in handle_click(lim.db, fsm[MainChat], now) : ClickAnswered(r, ambient)
       ELSE /\ Commit(lim.db)
            /\ out' = [msg |-> "too_fast"]
            /\ hist' = [hist EXCEPT !.clicks = @ + 1]
            /\ UNCHANGED fsm

RateLimitMiddleware(lim, ambient) == RateLimited(lim, allow(events, lim.limit, now), ambient)

\* The click button: RateLimitMiddleware, then handle_click.
Click ==
    /\ hist.clicks < MaxClicks
    /\ RateLimitMiddleware(get_user_click_limit(DB, now), Stats(DB, now).reward_mul_total)
    /\ UNCHANGED << now, admitted, inflight >>

\* The cancel-order button.
CancelOrder ==
    /\ hist.cancels < MaxCancels
    /\ Reply(profile_cancel_order(DB))
    /\ hist' = [hist EXCEPT !.cancels = @ + 1]
    /\ UNCHANGED << now, events, admitted, inflight >>

\* The categories of the boost shop the player opens.
ShopCategories == {"economy", "click"}

\* The boosts section of the shop, opened on a category.
ShopBoosts(category) ==
    /\ hist.buys < MaxBuys
    /\ Answer(MainChat, render_boosts(DB, category, now))
    /\ UNCHANGED << now, events, out, hist, admitted, inflight >>

\* A number typed in ShopState.boosts.
ShopChooseBoost(code) ==
    /\ fsm[MainChat].state = "shop_boosts"
    /\ hist.buys < MaxBuys
    /\ code \in fsm[MainChat].boost_ids
    /\ user_boosts[code] < MaxBoostLevel
    /\ Answer(MainChat, shop_choose_boost(DB, fsm[MainChat], code, now))
    /\ UNCHANGED << now, events, out, hist, admitted, inflight >>

BuyAnswered(r) ==
    /\ Answer(MainChat, r)
    /\ out' = [msg |-> r.out]

\* The buy button in ShopState.confirm_boost.
ShopBuyBoost ==
    /\ fsm[MainChat].state = "shop_confirm_boost"
    /\ hist.buys < MaxBuys
    /\ user_boosts[fsm[MainChat].boost_id] < MaxBoostLevel
    /\ BuyAnswered(shop_buy_boost(DB, fsm[MainChat], now))
    /\ hist' = [hist EXCEPT !.buys = @ + 1]
    /\ UNCHANGED << now, events, admitted, inflight >>

\* An inline button of a pending interactive event.
EventChoice(code, choice_idx) ==
    /\ get_pending_event_buff(DB, code) # 0
    /\ Reply(handle_event_choice_callback(DB, code, choice_idx, now))
    /\ UNCHANGED << now, events, hist, admitted, inflight >>

\* A number typed in SkillsState.picking.
PickSkill(code) ==
    /\ fsm[MainChat].state = "skills_picking"
    /\ code \in fsm[MainChat].skill_codes
    /\ Commit(pick_skill(DB, code))
    /\ fsm' = [fsm EXCEPT ![MainChat] = FsmClear]
    /\ out' = [msg |-> "skill_picked"]
    /\ UNCHANGED << now, events, hist, admitted, inflight >>

\* The studio button.
ShowStudio ==
    /\ hist.resets < MaxResets
    /\ Answer(MainChat, show_studio(DB, fsm[MainChat], now))
    /\ UNCHANGED << now, events, out, hist, admitted, inflight >>

StudioAnswered(r) ==
    /\ Answer(MainChat, r)
    /\ out' = [msg |-> r.out, gain |-> r.gain]

\* The confirm button in StudioState.confirm.
ConfirmStudio ==
    /\ fsm[MainChat].state = "studio_confirm"
    /\ hist.resets < MaxResets
    /\ StudioAnswered(confirm_studio(DB, fsm[MainChat]))
    /\ hist' = [hist EXCEPT !.resets = @ + 1]
    /\ UNCHANGED << now, events, admitted, inflight >>

\* /give_shield amount
AdminGiveShield(amount) ==
    /\ hist.admin < MaxAdmin
    /\ Commit(admin_give_shield(DB, amount))
    /\ out' = [msg |-> "shield_granted"]
    /\ hist' = [hist EXCEPT !.admin = @ + 1]
    /\ UNCHANGED << now, events, fsm, admitted, inflight >>

EventTested(r) ==
    /\ Commit(r.db)
    /\ out' = [msg |-> "test_event_choice", event |-> r.result]

\* /test_event_choice
AdminTestEventChoice ==
    /\ hist.admin < MaxAdmin
    /\ Len(user_buffs) < MaxBuffs
    /\ EventTested(admin_test_event_choice(DB, now))
    /\ hist' = [hist EXCEPT !.admin = @ + 1]
    /\ UNCHANGED << now, events, fsm, admitted, inflight >>

\* /roll_trend
AdminRollTrend(order_id) ==
    /\ hist.admin < MaxAdmin
    /\ order_id \in TrendCandidates(DB, now)
    /\ Commit(admin_roll_trend(DB, order_id, now))
    /\ out' = [msg |-> "trend_rolled"]
    /\ hist' = [hist EXCEPT !.admin = @ + 1]
    /\ UNCHANGED << now, events, fsm, admitted, inflight >>

\* The end of a quest handler answering in chat c.
QuestAnswered(c, handler, input, r) ==
    /\ Answer(c, r)
    /\ out' = [msg |-> r.out, handler |-> handler, chat |-> c, input |-> input,
               quest |-> r.quest, reward_key |-> r.reward_key]
    /\ UNCHANGED << now, events, hist, admitted, inflight >>

\* The quest button in chat c.
QuestEntry(c) == QuestAnswered(c, "quest_entry", None, quest_entry(DB, now))

\* A text typed in QuestState.selecting in chat c.
QuestSelect(c, code) ==
    /\ fsm[c].state = "quest_selecting"
    /\ QuestAnswered(c, "quest_select", code, quest_select(DB, fsm[c], code, now))

\* A text typed in QuestState.playing in chat c.
QuestPlaying(c, choice) ==
    /\ fsm[c].state = "quest_playing"
    /\ QuestAnswered(c, "quest_playing", choice, quest_playing(DB, fsm[c], choice, now))

\* The game loop: time, orders, clicks, events, skills and the studio.
Next ==
    \/ \E d \in TickSteps : Tick(d)
    \/ BackToMenu
    \/ OrdersRoot
    \/ \E o \in OrderIds : ChooseOrder(o)
    \/ \E c \in Chats, free_roll \in BOOLEAN : TakeOrder(c, free_roll)
    \/ Click
    \/ CancelOrder
    \/ \E code \in EventCodes, choice_idx \in 0..1 : EventChoice(code, choice_idx)
    \/ \E code \in SkillCodes : PickSkill(code)
    \/ ShowStudio
    \/ ConfirmStudio

Spec == Init /\ [][Next]_vars

\* The shop and the administrative commands.
NextShop ==
    \/ \E d \in TickSteps : Tick(d)
    \/ BackToMenu
    \/ \E category \in ShopCategories : ShopBoosts(category)
    \/ \E code \in BoostCodes : ShopChooseBoost(code)
    \/ ShopBuyBoost
    \/ \E code \in EventCodes, choice_idx \in 0..1 : EventChoice(code, choice_idx)
    \/ \E amount \in 1..MaxGrant : AdminGiveShield(amount)
    \/ AdminTestEventChoice
    \/ \E order_id \in OrderIds : AdminRollTrend(order_id)

SpecShop == Init /\ [][NextShop]_vars

\* The quests, played in either chat.
NextQuest ==
    \/ \E d \in TickSteps : Tick(d)
    \/ \E c \in Chats : QuestEntry(c)
    \/ \E c \in Chats, code \in QuestCodes \cup {None} : QuestSelect(c, code)
    \/ \E c \in Chats, choice \in (0 - 1)..3 : QuestPlaying(c, choice)

SpecQuest == Init /\ [][NextQuest]_vars

\* The studio button in chat c.
ShowStudioIn(c) ==
    /\ hist.resets < MaxExecutes
    /\ Answer(c, show_studio(DB, fsm[c], now))
    /\ UNCHANGED << now, events, out, hist, admitted, inflight >>

StudioAnsweredIn(c, r) ==
    /\ Answer(c, r)
    /\ out' = [msg |-> r.out, gain |-> r.gain]

\* The confirm button in StudioState.confirm in chat c.
ConfirmStudioIn(c) ==
    /\ fsm[c].state = "studio_confirm"
    /\ hist.resets < MaxExecutes
    /\ StudioAnsweredIn(c, confirm_studio(DB, fsm[c]))
    /\ hist' = [hist EXCEPT !.resets = @ + 1]
    /\ UNCHANGED << now, events, admitted, inflight >>

\* The studio in two chats, between orders.
NextStudio ==
    \/ \E d \in TickSteps : Tick(d)
    \/ OrdersRoot
    \/ \E o \in OrderIds : ChooseOrder(o)
    \/ \E c \in Chats, free_roll \in BOOLEAN : TakeOrder(c, free_roll)
    \/ \E c \in Chats : ShowStudioIn(c)
    \/ \E c \in Chats : ConfirmStudioIn(c)

SpecStudio == Init /\ [][NextStudio]_vars

\* The level-4 player after the click that completed an order and took the
\* level to 5.
SkillsPlayer ==
    [(CHOOSE p \in Profiles : p.user.level = 4)
        EXCEPT !.user.level = 5, !.user.xp = 3, !.user.orders_completed = @ + 1]

\* maybe_prompt_skill_choice has left the main chat in SkillsState.picking.
InitSkills ==
    /\ now = StartTime
    /\ user = SkillsPlayer.user
    /\ user_orders = SkillsPlayer.orders
    /\ user_boosts = SkillsPlayer.boosts
    /\ user_team = SkillsPlayer.team
    /\ user_items = SkillsPlayer.items
    /\ user_equipment = SkillsPlayer.equipment
    /\ user_skills = SkillsPlayer.skills
    /\ user_buffs = SkillsPlayer.buffs
    /\ user_quests = SkillsPlayer.quests
    /\ prestige = SkillsPlayer.prestige
    /\ economy_log = SkillsPlayer.log
    /\ trend = SkillsPlayer.trend
    /\ events = <<>>
    /\ fsm = [c \in Chats |->
                 IF c = MainChat THEN PromptSkills(FsmClear, get_available_skills(SkillsPlayer))
                 ELSE FsmClear]
    /\ out = [msg |-> "start"]
    /\ hist = NoHist
    /\ admitted = <<>>
    /\ inflight = NoInflight

\* A skill is picked, at once or later, between orders.
NextSkills ==
    \/ \E d \in TickSteps : Tick(d)
    \/ BackToMenu
    \/ OrdersRoot
    \/ \E o \in OrderIds : ChooseOrder(o)
    \/ \E c \in Chats, free_roll \in BOOLEAN : TakeOrder(c, free_roll)
    \/ CancelOrder
    \/ \E code \in SkillCodes : PickSkill(code)

SpecSkills == InitSkills /\ [][NextSkills]_vars

\* Quests and the studio: a player who plays quests and resets.
NextQuestStudio ==
    \/ \E c \in Chats : QuestEntry(c)
    \/ \E c \in Chats, code \in QuestCodes \cup {None} : QuestSelect(c, code)
    \/ \E c \in Chats, choice \in (0 - 1)..3 : QuestPlaying(c, choice)
    \/ ShowStudio
    \/ ConfirmStudio

SpecQuestStudio == Init /\ [][NextQuestStudio]_vars

(* ------------------------------------------------------------------ *)
(* RateLimiter on its own: attempts of one user under a fixed limit     *)
(* ------------------------------------------------------------------ *)
\* The player the two small specifications hold: the newcomer.
Newcomer == CHOOSE p \in Profiles : p.user.level = 1

\* The rows of the player p, in a state of a small specification.
Holds(p) ==
    /\ user = p.user
    /\ user_orders = p.orders
    /\ user_boosts = p.boosts
    /\ user_team = p.team
    /\ user_items = p.items
    /\ user_equipment = p.equipment
    /\ user_skills = p.skills
    /\ user_buffs = p.buffs
    /\ user_quests = p.quests
    /\ prestige = p.prestige
    /\ trend = p.trend
    /\ fsm = [c \in Chats |-> FsmClear]

\* RateLimiter(): no deque yet; the clock time.monotonic() starts at 0; the
\* history keeps the limit and every attempt with its verdict.
InitRL ==
    \E limit \in 1..MaxRLLimit :
        /\ Holds(Newcomer)
        /\ economy_log = Newcomer.log
        /\ now = 0
        /\ events = <<>>
        /\ admitted = <<>>
        /\ inflight = NoInflight
        /\ out = [msg |-> "start"]
        /\ hist = [limit |-> limit, tried |-> <<>>]

\* time.monotonic() advances by one second.
RLTick ==
    /\ now < MaxRLTime
    /\ now' = now + 1
    /\ UNCHANGED << user, user_orders, user_boosts, user_team, user_items, user_equipment,
                    user_skills, user_buffs, user_quests, prestige, economy_log, trend, events,
                    fsm, out,
                    hist, admitted, inflight >>

\* allow answered a.
RLAnswered(a) ==
    /\ events' = a.events
    /\ admitted' = IF a.ok THEN Append(admitted, now) ELSE admitted
    /\ out' = [msg |-> IF a.ok THEN "admitted" ELSE "rejected"]
    /\ hist' = [hist EXCEPT !.tried = Append(@, [t |-> now, ok |-> a.ok])]

\* One call of RateLimiter.allow(user_id, limit_per_sec) at the current time.
RLAttempt ==
    /\ Len(hist.tried) < MaxRLTries
    /\ RLAnswered(allow(events, hist.limit, now))
    /\ UNCHANGED << now, user, user_orders, user_boosts, user_team, user_items,
                    user_equipment, user_skills, user_buffs, user_quests, prestige,
                    economy_log, trend,
                    fsm, inflight >>

NextRL == RLTick \/ RLAttempt

SpecRL == InitRL /\ [][NextRL]_vars

(* ------------------------------------------------------------------ *)
(* Orders under stacked deadline_crunch buffs                          *)
(* ------------------------------------------------------------------ *)
\* The numbers of deadline_crunch buffs the player holds at the start.
CrunchCounts == {0, 2, 11}

\* n deadline_crunch buffs drawn over the last minute, each as
\* apply_event_effect stores it.
CrunchBuffs(n) ==
    [i \in 1..n |-> [code |-> "deadline_crunch", pending |-> FALSE,
                     expires_at |-> StartTime + EventCatalog["deadline_crunch"].duration_sec
                                             - 60 + i,
                     payload |-> EventCatalog["deadline_crunch"].effect.buff]]

\* The level-4 player after n every-twentieth-click events that all drew
\* deadline_crunch.
CrunchPlayer(n) ==
    [(CHOOSE p \in Profiles : p.user.level = 4) EXCEPT !.buffs = CrunchBuffs(n)]

InitCrunch ==
    \E n \in CrunchCounts :
        /\ Holds(CrunchPlayer(n))
        /\ economy_log = CrunchPlayer(n).log
        /\ now = StartTime
        /\ events = <<>>
        /\ admitted = <<>>
        /\ inflight = NoInflight
        /\ out = [msg |-> "start"]
        /\ hist = NoHist

\* Orders taken and canceled under stacked buffs.
NextCrunch ==
    \/ \E d \in TickSteps : Tick(d)
    \/ OrdersRoot
    \/ \E o \in OrderIds : ChooseOrder(o)
    \/ \E c \in Chats, free_roll \in BOOLEAN : TakeOrder(c, free_roll)
    \/ CancelOrder

SpecCrunch == InitCrunch /\ [][NextCrunch]_vars

(* ------------------------------------------------------------------ *)
(* get_user_stats under stacked boosts                                  *)
(* ------------------------------------------------------------------ *)
\* SEED_BOOSTS rows of the types get_user_stats caps that the shop of the
\* other specifications does not sell; step_value in hundredths.
CappedBoosts ==
    [critical_strike |-> [type |-> "crit", base_cost |-> 42000, step_value |-> 3,
                          min_level |-> 3],
     requirement_relief |-> [type |-> "req_clicks", base_cost |-> 980, step_value |-> 4,
                             min_level |-> 5],
     contractor_discount |-> [type |-> "team_discount", base_cost |-> 1080, step_value |-> 6,
                              min_level |-> 5],
     shop_wholesale |-> [type |-> "shop_discount", base_cost |-> 1420, step_value |-> 5,
                         min_level |-> 5]]
CappedCodes == DOMAIN CappedBoosts
CappedTypes == {CappedBoosts[c].type : c \in CappedCodes}

\* The levels a boost row is examined at.
StatLevels == {0, 1, 8, 40}

\* The loop over the boost rows of a player who also holds the boosts of
\* CappedBoosts at the levels lv: the accumulators by boost type.
BoostTotalsWith(db, lv) ==
    [ty \in BoostTypes \cup CappedTypes |->
        Get(BoostTotals(db), ty, 0)
        + SumOver({c \in CappedCodes : CappedBoosts[c].type = ty},
                  [c \in CappedCodes |-> BoostValue(CappedBoosts[c], lv[c])])]

\* n perfect_flow buffs drawn over the last minute, each as
\* apply_event_effect stores it.
FlowBuffs(n) ==
    [i \in 1..n |-> [code |-> "perfect_flow", pending |-> FALSE,
                     expires_at |-> StartTime + EventCatalog["perfect_flow"].duration_sec
                                             - 60 + i,
                     payload |-> EventCatalog["perfect_flow"].effect.buff]]

\* The stacks a player is examined with: the level of reward_mastery and of
\* passive_income_plus, and the number of perfect_flow buffs. The two larger
\* stacks both exceed 100 % in each aggregate.
Stacks ==
    {[levels |-> 0, buffs |-> 0], [levels |-> 8, buffs |-> 7], [levels |-> 40, buffs |-> 40]}

\* The level-20 player wearing client_contract, after n deadline_crunch
\* events, with anti_brak at level a, quick_briefs at level q and the stack s.
StatsPlayer(n, a, q, s) ==
    [(CHOOSE p \in Profiles : p.user.level = 20)
        EXCEPT !.buffs = @ \o CrunchBuffs(n) \o FlowBuffs(s.buffs),
               !.boosts.anti_brak = a, !.boosts.quick_briefs = q,
               !.boosts.reward_mastery = @ + s.levels,
               !.boosts.passive_income_plus = @ + s.levels,
               !.items = @ \cup {"client_contract"},
               !.equipment.charm = "client_contract"]

InitStats ==
    \E n \in CrunchCounts, a \in StatLevels, q \in StatLevels, s \in Stacks :
        /\ Holds(StatsPlayer(n, a, q, s))
        /\ economy_log = StatsPlayer(n, a, q, s).log
        /\ now = StartTime
        /\ events = <<>>
        /\ admitted = <<>>
        /\ inflight = NoInflight
        /\ out = [msg |-> "start"]
        /\ hist = NoHist

\* get_user_stats(session, user) for a player holding the boosts of
\* CappedBoosts at some levels: the expired buffs are deleted, the dictionary
\* is returned.
UserStats ==
    /\ out.msg = "start"
    /\ \E lv \in [CappedCodes -> StatLevels] :
          out' = [msg |-> "stats", levels |-> lv,
                  stats |-> StatsWithBoosts(DB, BoostTotalsWith(DB, lv), now)]
    /\ Commit(PurgeExpiredBuffs(DB, now))
    /\ UNCHANGED << now, events, fsm, hist, admitted, inflight >>

NextStats == UserStats

SpecStats == InitStats /\ [][NextStats]_vars

(* ------------------------------------------------------------------ *)
(* Passive income collected in several visits                           *)
(* ------------------------------------------------------------------ *)
\* The lengths of time between two visits, and the time a behaviour covers:
\* well inside MAX_OFFLINE_SECONDS.
VisitSteps == {1, 7, 15}
MaxElapsed == 60

\* The junior levels the visiting player holds.
JuniorLevels == {1, 2}

\* The level-4 player with no buff and a junior of level n: nothing in the
\* behaviour changes the passive rate.
VisitPlayer(n) ==
    [(CHOOSE p \in Profiles : p.user.level = 4) EXCEPT !.buffs = <<>>, !.team.junior = n]

InitVisits ==
    \E n \in JuniorLevels :
        /\ Holds(VisitPlayer(n))
        /\ economy_log = VisitPlayer(n).log
        /\ now = StartTime
        /\ events = <<>>
        /\ admitted = <<>>
        /\ inflight = NoInflight
        /\ out = [msg |-> "start"]
        /\ hist = NoHist

\* Time passes between two visits.
Elapse(d) ==
    /\ now + d <= StartTime + MaxElapsed
    /\ now' = now + d
    /\ UNCHANGED << user, user_orders, user_boosts, user_team, user_items, user_equipment,
                    user_skills, user_buffs, user_quests, prestige, economy_log, trend, events,
                    fsm, out, hist, admitted, inflight >>

\* The player opens the orders page now and then; each visit runs the
\* passive accrual.
NextVisits ==
    \/ \E d \in VisitSteps : Elapse(d)
    \/ OrdersRoot

SpecVisits == InitVisits /\ [][NextVisits]_vars

(* ------------------------------------------------------------------ *)
(* apply_event_effect on its own: percentage effects                    *)
(* ------------------------------------------------------------------ *)
\* The largest balance tried, and the experience values tried.
MaxBalance == 30
XpValues == {0, 1, 60}

\* Effects that carry one percentage and nothing else: 5% and 0.1%, of both
\* signs, of the balance and of the experience.
PctEffects ==
    { [balance_pct |-> 5], [balance_pct |-> -5],
      [balance_pct |-> 1, pct_den |-> 1000], [balance_pct |-> -1, pct_den |-> 1000],
      [xp_pct |-> 5], [xp_pct |-> -5],
      [xp_pct |-> 1, pct_den |-> 1000], [xp_pct |-> -1, pct_den |-> 1000] }

\* The newcomer with the balance b and the experience x.
EffectPlayer(b, x) == [Newcomer EXCEPT !.user.balance = b, !.user.xp = x]

InitEffects ==
    \E b \in 0..MaxBalance, x \in XpValues :
        /\ Holds(EffectPlayer(b, x))
        /\ economy_log = <<>>
        /\ now = StartTime
        /\ events = <<>>
        /\ admitted = <<>>
        /\ inflight = NoInflight
        /\ out = [msg |-> "start"]
        /\ hist = NoHist

\* apply_event_effect is called once with the effect; the answer keeps the
\* effect and the user row it was applied to.
ApplyEffect(effect) ==
    /\ out.msg = "start"
    /\ Commit(apply_event_effect(DB, "coffee_spill", effect, now))
    /\ out' = [msg |-> "effect", effect |-> effect, before |-> user]
    /\ UNCHANGED << now, events, fsm, hist, admitted, inflight >>

NextEffects == \E effect \in PctEffects : ApplyEffect(effect)

SpecEffects == InitEffects /\ [][NextEffects]_vars

(* ------------------------------------------------------------------ *)
(* pick_random_event on its own: the weighted draw                      *)
(* ------------------------------------------------------------------ *)
\* The levels of the players who draw, the highest level of the anti_brak
\* boost they hold, and the step between two tried values of
\* random.uniform, in hundredths of a weight unit.
DrawLevels == {1, 3, 5, 20}
MaxProtection == 9
PickStep == 25

\* The level-4 player at level lv with anti_brak at level a.
DrawPlayer(lv, a) ==
    [(CHOOSE p \in Profiles : p.user.level = 4) EXCEPT
        !.user.level = lv, !.boosts.anti_brak = a, !.buffs = <<>>]

\* anti_brak is sold from level 3 on.
InitDraw ==
    \E lv \in DrawLevels, a \in 0..MaxProtection :
        /\ a > 0 => lv >= BoostCatalog["anti_brak"].min_level
        /\ Holds(DrawPlayer(lv, a))
        /\ economy_log = DrawPlayer(lv, a).log
        /\ now = StartTime
        /\ events = <<>>
        /\ admitted = <<>>
        /\ inflight = NoInflight
        /\ out = [msg |-> "start"]
        /\ hist = NoHist

\* The points random.uniform(0, total_weight) is tried at.
PickPoints(total_weight) == {p \in 0..total_weight : p % PickStep = 0 \/ p = total_weight}

\* pick_random_event(session, user, stats): the answer keeps the point drawn
\* and the event returned.
PickRandomEvent ==
    /\ out.msg = "start"
    /\ LET stats == Stats(DB, now)
           candidates == EventCandidates(DB)
           weights == DrawWeights(candidates, stats)
       IN  \E pick \in PickPoints(SumSeq(weights)) :
               out' = [msg |-> "event", pick |-> pick,
                       event |-> DrawEvent(candidates, weights, pick)]
    /\ UNCHANGED << now, user, user_orders, user_boosts, user_team, user_items, user_equipment,
                    user_skills, user_buffs, user_quests, prestige, economy_log, trend, events,
                    fsm, hist, admitted, inflight >>

NextDraw == PickRandomEvent

SpecDraw == InitDraw /\ [][NextDraw]_vars

(* ------------------------------------------------------------------ *)
(* get_user_stats on its own: click power                               *)
(* ------------------------------------------------------------------ *)
\* gear_tuning, the equipment_eff boost of SEED_BOOSTS, and the levels it is
\* held at: the levels at which the scaled bonus of an item is a whole number
\* of hundredths.
GearBoost == [type |-> "equipment_eff", base_cost |-> 1280, step_value |-> 6, min_level |-> 5]
GearLevels == {0, 5}

\* The loop over the boost rows of a player who also holds gear_tuning at
\* level g.
BoostTotalsGear(db, g) ==
    [ty \in BoostTypes \cup {GearBoost.type} |->
        IF ty = GearBoost.type THEN BoostValue(GearBoost, g) ELSE BoostTotals(db)[ty]]

\* What the examined players differ in: the level of inspiration, the number
\* of perfect_flow buffs, the laptop, the skills and the reputation.
PowerLevels == {0, 3}
PowerBuffs == {0, 2}
PowerSkills == {{"web_master"}, {"web_master", "ui_alchemist", "automation_ninja"}}
PowerReputations == {1, 7}

\* A perfect_flow buff that expired at the start.
ExpiredFlow == [FlowBuffs(1)[1] EXCEPT !.expires_at = StartTime]

\* The level-20 player with these rows; laptop says whether laptop_t2 is worn.
PowerPlayer(i, n, laptop, skills, reputation) ==
    [(CHOOSE p \in Profiles : p.user.level = 20)
        EXCEPT !.boosts.inspiration = i,
               !.buffs = << ExpiredFlow >> \o FlowBuffs(n),
               !.items = IF laptop THEN @ \cup {"laptop_t2"} ELSE @,
               !.equipment.laptop = IF laptop THEN "laptop_t2" ELSE None,
               !.skills = skills,
               !.prestige.reputation = reputation]

InitPower ==
    \E i \in PowerLevels, n \in PowerBuffs, laptop \in BOOLEAN, skills \in PowerSkills,
       reputation \in PowerReputations :
        /\ Holds(PowerPlayer(i, n, laptop, skills, reputation))
        /\ economy_log = PowerPlayer(i, n, laptop, skills, reputation).log
        /\ now = StartTime
        /\ events = <<>>
        /\ admitted = <<>>
        /\ inflight = NoInflight
        /\ out = [msg |-> "start"]
        /\ hist = NoHist

\* get_user_stats(session, user) for a player who holds gear_tuning at some
\* level while any boost row is left: the answer keeps the rows read.
UserPower ==
    /\ \E g \in GearLevels :
          /\ hist.resets > 0 => g = 0
          /\ out' = [msg |-> "stats", gear |-> g, before |-> DB,
                     stats |-> StatsWithBoosts(DB, BoostTotalsGear(DB, g), now)]
    /\ Commit(PurgeExpiredBuffs(DB, now))
    /\ UNCHANGED << now, events, fsm, hist, admitted, inflight >>

\* The stats are read before and after the studio is opened and confirmed.
NextPower ==
    \/ UserPower
    \/ ShowStudioIn(MainChat)
    \/ ConfirmStudioIn(MainChat)

SpecPower == InitPower /\ [][NextPower]_vars

(* ------------------------------------------------------------------ *)
(* Interactive events: buttons pressed at any time                      *)
(* ------------------------------------------------------------------ *)
\* The events and the option indexes the buttons pressed carry: the
\* interactive event and one that is never pending; index 2 is not offered.
ChoiceCodes == {"spill_choice", "coffee_spill"}
ChoiceIndexes == 0..2

\* The button event_choice:<code>:<choice_idx> is pressed, whether or not an
\* event is pending; the answer keeps what was pressed.
ResolveEvent(code, choice_idx) ==
    /\ LET r == handle_event_choice_callback(DB, code, choice_idx, now)
       IN  /\ Commit(r.db)
           /\ out' = [msg |-> r.out, code |-> code, choice_idx |-> choice_idx]
    /\ UNCHANGED << now, events, fsm, hist, admitted, inflight >>

\* Interactive events are parked by /test_event_choice, expire with time and
\* are resolved by buttons.
NextChoice ==
    \/ \E d \in TickSteps : Tick(d)
    \/ OrdersRoot
    \/ AdminTestEventChoice
    \/ \E code \in ChoiceCodes, choice_idx \in ChoiceIndexes : ResolveEvent(code, choice_idx)

SpecChoice == Init /\ [][NextChoice]_vars

(* ------------------------------------------------------------------ *)
(* Purchases and penalties: boosts, equipment, team, events             *)
(* ------------------------------------------------------------------ *)
\* The end of a handler of the equipment shop or the team: the answer keeps
\* the price it compared the balance with.
PriceAnswered(r) ==
    /\ Answer(MainChat, r)
    /\ out' = [msg |-> r.out, price |-> r.price]

\* The equipment section of the shop.
ShopEquipment ==
    /\ hist.buys < MaxBuys
    /\ Answer(MainChat, render_items(DB, "items_page", now))
    /\ UNCHANGED << now, events, out, hist, admitted, inflight >>

\* A number typed in ShopState.equipment.
ShopChooseItem(item) ==
    /\ fsm[MainChat].state = "shop_equipment"
    /\ hist.buys < MaxBuys
    /\ item \in fsm[MainChat].item_ids
    /\ Answer(MainChat, shop_choose_item(DB, fsm[MainChat], item, now))
    /\ UNCHANGED << now, events, out, hist, admitted, inflight >>

\* The buy button in ShopState.confirm_item.
ShopBuyItem ==
    /\ fsm[MainChat].state = "shop_confirm_item"
    /\ hist.buys < MaxBuys
    /\ PriceAnswered(shop_buy_item(DB, fsm[MainChat], now))
    /\ hist' = [hist EXCEPT !.buys = @ + 1]
    /\ UNCHANGED << now, events, admitted, inflight >>

\* The team button.
TeamRoot ==
    /\ hist.buys < MaxBuys
    /\ Answer(MainChat, render_team(DB, now))
    /\ UNCHANGED << now, events, out, hist, admitted, inflight >>

\* A number typed in TeamState.browsing.
TeamChoose(member) ==
    /\ fsm[MainChat].state = "team_browsing"
    /\ hist.buys < MaxBuys
    /\ member \in fsm[MainChat].member_ids
    /\ Answer(MainChat, team_choose(DB, fsm[MainChat], member, now))
    /\ UNCHANGED << now, events, out, hist, admitted, inflight >>

\* The upgrade button in TeamState.confirm.
TeamUpgrade ==
    /\ fsm[MainChat].state = "team_confirm"
    /\ hist.buys < MaxBuys
    /\ user_team[fsm[MainChat].member_id] < MaxTeamLevel
    /\ PriceAnswered(team_upgrade(DB, fsm[MainChat], now))
    /\ hist' = [hist EXCEPT !.buys = @ + 1]
    /\ UNCHANGED << now, events, admitted, inflight >>

\* Everything a player pays for, and the penalties of interactive events.
NextPurchases ==
    \/ \E category \in ShopCategories : ShopBoosts(category)
    \/ \E code \in BoostCodes : ShopChooseBoost(code)
    \/ ShopBuyBoost
    \/ ShopEquipment
    \/ \E item \in ItemCodes : ShopChooseItem(item)
    \/ ShopBuyItem
    \/ TeamRoot
    \/ \E member \in TeamCodes : TeamChoose(member)
    \/ TeamUpgrade
    \/ AdminTestEventChoice
    \/ \E choice_idx \in ChoiceIndexes : ResolveEvent("spill_choice", choice_idx)

SpecPurchases == Init /\ [][NextPurchases]_vars

(* ------------------------------------------------------------------ *)
(* The studio of a player who keeps earning                             *)
(* ------------------------------------------------------------------ *)
\* The level-20 player with lifetime earnings of 8900: order_finish 7400 and
\* quest_reward 1500.
EarnedPlayer ==
    [(CHOOSE p \in Profiles : p.user.level = 20)
        EXCEPT !.log = << [type |-> "order_finish", amount |-> 7400] >> \o Tail(@)]

InitEarned ==
    /\ now = StartTime
    /\ user = EarnedPlayer.user
    /\ user_orders = EarnedPlayer.orders
    /\ user_boosts = EarnedPlayer.boosts
    /\ user_team = EarnedPlayer.team
    /\ user_items = EarnedPlayer.items
    /\ user_equipment = EarnedPlayer.equipment
    /\ user_skills = EarnedPlayer.skills
    /\ user_buffs = EarnedPlayer.buffs
    /\ user_quests = EarnedPlayer.quests
    /\ prestige = EarnedPlayer.prestige
    /\ economy_log = EarnedPlayer.log
    /\ trend = EarnedPlayer.trend
    /\ events = <<>>
    /\ fsm = [c \in Chats |-> IF c = MainChat THEN FsmClear ELSE SideChat(EarnedPlayer)]
    /\ out = [msg |-> "start"]
    /\ hist = NoHist
    /\ admitted = <<>>
    /\ inflight = NoInflight

\* Orders are taken and worked on, the studio is opened and confirmed.
NextEarned ==
    \/ \E d \in TickSteps : Tick(d)
    \/ OrdersRoot
    \/ \E o \in OrderIds : ChooseOrder(o)
    \/ \E c \in Chats, free_roll \in BOOLEAN : TakeOrder(c, free_roll)
    \/ Click
    \/ ShowStudio
    \/ ConfirmStudio

SpecEarned == InitEarned /\ [][NextEarned]_vars

(* ------------------------------------------------------------------ *)
(* RateLimitMiddleware when the limit lookup raises                     *)
(* ------------------------------------------------------------------ *)
\* RateLimitMiddleware.__call__ when get_user_click_limit raised: its session
\* rolls back, the except branch logs the exception, RateLimiter.allow is not
\* called and the handler runs.
RateLimitLookupRaised(db, ambient) ==
    /\ events' = events
    /\ \E r \in handle_click(db, fsm[MainChat], now) : ClickAnswered(r, ambient)

\* The click button, with an exception raised inside get_user_click_limit.
ClickLimitFails ==
    /\ hist.clicks < MaxClicks
    /\ RateLimitLookupRaised(DB, Stats(DB, now).reward_mul_total)
    /\ UNCHANGED << now, admitted, inflight >>

\* Orders and clicks, the limit lookup answering or raising.
NextLimitFaults ==
    \/ \E d \in TickSteps : Tick(d)
    \/ OrdersRoot
    \/ \E o \in OrderIds : ChooseOrder(o)
    \/ \E c \in Chats, free_roll \in BOOLEAN : TakeOrder(c, free_roll)
    \/ Click
    \/ ClickLimitFails

SpecLimitFaults == Init /\ [][NextLimitFaults]_vars

(* ------------------------------------------------------------------ *)
(* Handlers that raise: session_scope and safe_handler                 *)
(* ------------------------------------------------------------------ *)
\* session_scope(): the rows after the block; they are the rows before it
\* when the block raised (session.begin() rolls back), else the rows of the
\* block.
session_scope(before, after, raised) == IF raised THEN before ELSE after

\* safe_handler: the exception is logged and the user is answered
\* ERROR_MESSAGE.
safe_handler == [msg |-> "error"]

\* handle_click raised after the middleware admitted the click: the session
\* of get_user_click_limit has committed, the session of the handler rolls
\* back whatever outcome r it was heading for.
ClickFailed(lim, a) ==
    /\ a.ok
    /\ events' = a.events
    /\ \E r \in handle_click(lim.db, fsm[MainChat], now) :
          Commit(session_scope(lim.db, r.db, TRUE))
    /\ out' = safe_handler
    /\ hist' = [hist EXCEPT !.clicks = @ + 1]

MiddlewareThenFailure(lim) == ClickFailed(lim, allow(events, lim.limit, now))

\* The click button, with an exception raised inside handle_click.
ClickFails ==
    /\ hist.clicks < MaxClicks
    /\ MiddlewareThenFailure(get_user_click_limit(DB, now))
    /\ UNCHANGED << now, fsm, admitted, inflight >>

\* The take button in chat c, with an exception raised inside the session of
\* take_order, after the order row was added.
TakeOrderFails(c) ==
    /\ fsm[c].state = "orders_confirm"
    /\ hist.takes < MaxOrders
    /\ ensure_no_active_order(DB)
    /\ Commit(session_scope(DB, take_order(DB, fsm[c], FALSE, hist.orders + 1, now).db, TRUE))
    /\ out' = safe_handler
    /\ hist' = [hist EXCEPT !.takes = @ + 1]
    /\ UNCHANGED << now, events, fsm, admitted, inflight >>

\* The cancel-order button, with an exception raised after the order was
\* marked.
CancelOrderFails ==
    /\ hist.cancels < MaxCancels
    /\ ~ensure_no_active_order(DB)
    /\ Commit(session_scope(DB, profile_cancel_order(DB).db, TRUE))
    /\ out' = safe_handler
    /\ hist' = [hist EXCEPT !.cancels = @ + 1]
    /\ UNCHANGED << now, events, fsm, admitted, inflight >>

\* Orders and clicks, each handler completing or raising.
NextFaults ==
    \/ \E d \in TickSteps : Tick(d)
    \/ OrdersRoot
    \/ \E o \in OrderIds : ChooseOrder(o)
    \/ \E c \in Chats, free_roll \in BOOLEAN : TakeOrder(c, free_roll)
    \/ Click
    \/ CancelOrder
    \/ ClickFails
    \/ \E c \in Chats : TakeOrderFails(c)
    \/ CancelOrderFails

SpecFaults == Init /\ [][NextFaults]_vars

(* ------------------------------------------------------------------ *)
(* Interleaved handlers: one session each, no lock                     *)
(* ------------------------------------------------------------------ *)
\* The tasks the dispatcher runs for one player.
Tasks == 1..MaxInflight

\* The flush of a mapped row or of rows keyed by code: an UPDATE sets the
\* columns the session changed to the values it computed from what it read;
\* the other columns keep what the database holds.
FlushColumns(read, written, cur) ==
    [f \in DOMAIN cur |-> IF written[f] # read[f] THEN written[f] ELSE cur[f]]

\* The flush of a collection of codes: a DELETE for each row the session
\* removed, an INSERT for each row it added.
FlushCodes(read, written, cur) == (cur \ (read \ written)) \cup (written \ read)

OrderIdsOf(rows) == {o.id : o \in rows}

OrderRow(rows, id) == CHOOSE o \in rows : o.id = id

\* The flush of user_orders: an UPDATE of each row the session changed, an
\* INSERT under the next primary key for each row it added.
FlushOrders(read, written, cur, next_id) ==
    {IF o.id \in OrderIdsOf(read) \cap OrderIdsOf(written)
     THEN FlushColumns(OrderRow(read, o.id), OrderRow(written, o.id), o)
     ELSE o : o \in cur}
    \cup {[w EXCEPT !.id = next_id] : w \in {o \in written : o.id \notin OrderIdsOf(read)}}

InRows(b, rows) == \E i \in DOMAIN rows : rows[i] = b

\* The flush of user_buffs: the rows the session deleted go, the rows it
\* added are inserted.
FlushBuffs(read, written, cur) ==
    SelectSeq(cur, LAMBDA b : ~(InRows(b, read) /\ ~InRows(b, written)))
        \o SelectSeq(written, LAMBDA b : ~InRows(b, read))

\* session.begin() committing in a database other sessions have written since
\* this one read: the unit of work of a session that read the rows `read` and
\* left them as `written`, flushed into the rows `cur`.
Flush(read, written, cur, next_id) ==
    [user |-> FlushColumns(read.user, written.user, cur.user),
     orders |-> FlushOrders(read.orders, written.orders, cur.orders, next_id),
     boosts |-> FlushColumns(read.boosts, written.boosts, cur.boosts),
     team |-> FlushColumns(read.team, written.team, cur.team),
     items |-> FlushCodes(read.items, written.items, cur.items),
     equipment |-> FlushColumns(read.equipment, written.equipment, cur.equipment),
     skills |-> FlushCodes(read.skills, written.skills, cur.skills),
     buffs |-> FlushBuffs(read.buffs, written.buffs, cur.buffs),
     quests |-> IF written.quests # read.quests THEN written.quests ELSE cur.quests,
     prestige |-> FlushColumns(read.prestige, written.prestige, cur.prestige),
     log |-> cur.log \o SubSeq(written.log, Len(read.log) + 1, Len(written.log)),
     trend |-> IF written.trend # read.trend THEN written.trend ELSE cur.trend]

\* Task i starts a handler in chat c: it reads the rows `read` and heads for
\* the answer r.
Begins(i, handler, c, read, r) ==
    /\ inflight[i].handler = None
    /\ \A j \in 1..(i - 1) : inflight[j].handler # None
    /\ inflight' = [inflight EXCEPT ![i] = [handler |-> handler, chat |-> c, read |-> read,
                                            db |-> r.db, fsm |-> r.fsm, out |-> r.out]]

\* The take button in chat c, up to the last await before the commit.
TakeOrderBegins(i, c) ==
    /\ fsm[c].state = "orders_confirm"
    /\ hist.takes < MaxOrders
    /\ Begins(i, "take_order", c, DB, take_order(DB, fsm[c], FALSE, 0, now))
    /\ hist' = [hist EXCEPT !.takes = @ + 1]
    /\ UNCHANGED << now, user, user_orders, user_boosts, user_team, user_items,
                    user_equipment, user_skills, user_buffs, user_quests, prestige,
                    economy_log, trend, events, fsm, out, admitted >>

ClickBegun(i, lim, a) ==
    /\ a.ok
    /\ events' = a.events
    /\ Commit(lim.db)
    /\ \E r \in handle_click(lim.db, fsm[MainChat], now) :
          /\ hist.events + r.drawn <= MaxEvents
          /\ Len(r.db.buffs) <= MaxBuffs
          /\ Begins(i, "handle_click", MainChat, lim.db, r)
          /\ hist' = [hist EXCEPT !.clicks = @ + 1, !.events = @ + r.drawn]

MiddlewareThenBegin(i, lim) == ClickBegun(i, lim, allow(events, lim.limit, now))

\* The click button: RateLimitMiddleware admits the click, then handle_click
\* runs up to the last await before the commit.
ClickBegins(i) ==
    /\ hist.clicks < MaxClicks
    /\ MiddlewareThenBegin(i, get_user_click_limit(DB, now))
    /\ UNCHANGED << now, fsm, out, admitted >>

\* The session of task i commits and the handler returns.
HandlerEnds(i) ==
    /\ inflight[i].handler # None
    /\ Commit(Flush(inflight[i].read, inflight[i].db, DB, hist.orders + 1))
    /\ fsm' = [fsm EXCEPT ![inflight[i].chat] = inflight[i].fsm]
    /\ out' = [msg |-> inflight[i].out]
    /\ hist' = [hist EXCEPT !.orders = IF inflight[i].out = "order_taken" THEN @ + 1 ELSE @]
    /\ inflight' = [inflight EXCEPT ![i] = NoTask]
    /\ UNCHANGED << now, events, admitted >>

\* Orders and clicks whose handlers interleave at their awaits.
NextConcurrent ==
    \/ \E d \in TickSteps : Tick(d)
    \/ OrdersRoot
    \/ \E o \in OrderIds : ChooseOrder(o)
    \/ \E i \in Tasks, c \in Chats : TakeOrderBegins(i, c)
    \/ \E i \in Tasks : ClickBegins(i)
    \/ \E i \in Tasks : HandlerEnds(i)

SpecConcurrent == Init /\ [][NextConcurrent]_vars

(* ------------------------------------------------------------------ *)
(* The economy formulas on their own                                    *)
(* ------------------------------------------------------------------ *)
\* The reward multipliers tried, in 1/10000: 0, 0.25, 0.5, ...
RewardMuls == {2500 * k : k \in 0..MaxMulSteps}

\* The lifetime-earned amounts tried.
Totals == (0 - 3)..MaxTotal

\* The rows of economy_logs drawn.
LogRows ==
    [type : EarningTypes \cup {"passive", "buy_boost"}, amount : {0 - 400, 0, 600, 1000, 3000}]

Logs == UNION {[1..n -> LogRows] : n \in 0..MaxLogLen}

InitFormulas ==
    /\ Holds(Newcomer)
    /\ economy_log \in Logs
    /\ now = StartTime
    /\ events = <<>>
    /\ admitted = <<>>
    /\ inflight = NoInflight
    /\ out = [msg |-> "start"]
    /\ hist = NoHist

\* One computation is made on the inputs drawn; answer is what it gave.
Computed(answer) ==
    /\ out' = answer
    /\ UNCHANGED << now, user, user_orders, user_boosts, user_team, user_items,
                    user_equipment, user_skills, user_buffs, user_quests, prestige,
                    economy_log, trend,
                    events, fsm, hist, admitted, inflight >>

\* finish_order_reward(req, mul) is computed for some inputs.
RewardOf ==
    /\ out.msg = "start"
    /\ economy_log = <<>>
    /\ \E req \in 1..MaxReq, mul \in RewardMuls :
          Computed([msg |-> "reward", req |-> req, mul |-> mul,
                    reward |-> finish_order_reward(req, mul)])

\* calc_prestige_gain(session, user, total_earned=total) is computed for some total.
GainOf ==
    /\ out.msg = "start"
    /\ economy_log = <<>>
    /\ \E total \in Totals :
          Computed([msg |-> "gain", total |-> total, gain |-> calc_prestige_gain(total)])

PreviewAnswered(total_earned) ==
    Computed([msg |-> "prestige_preview", total |-> total_earned,
              gain |-> calc_prestige_gain(total_earned)])

\* /prestige_preview
AdminPrestigePreview ==
    /\ out.msg = "start"
    /\ PreviewAnswered(calc_total_earned(DB))

NextFormulas == RewardOf \/ GainOf \/ AdminPrestigePreview

SpecFormulas == InitFormulas /\ [][NextFormulas]_vars

(* ------------------------------------------------------------------ *)
(* OrderLifecycle: one active order, immutable snapshots                *)
(* ------------------------------------------------------------------ *)
\* A step in which take_order answered (the take button was pressed).
TakeStep == hist'.takes = hist.takes + 1

\* C1, the rejection: an accept attempted while an order is Active is answered
\* ORDER_ALREADY and leaves the rows of user_orders as they are; an accept
\* without an Active order adds exactly one row, the only Active one.
C1_AcceptStep ==
    TakeStep =>
        IF ActiveOrders(DB) # {}
        THEN out'.msg = "order_already" /\ user_orders' = user_orders
        ELSE /\ out'.msg = "order_taken"
             /\ Cardinality(user_orders' \ user_orders) = 1
             /\ user_orders \subseteq user_orders'
             /\ {o \in user_orders' : IsActive(o)} = user_orders' \ user_orders

\* C1: in every state reachable by accept, click, cancel and prestige at most
\* one order of the player is Active, and an accept attempted while an order
\* is Active is rejected without creating a second order and without altering
\* the existing one.
C1_AtMostOneActiveOrder ==
    /\ [](Cardinality(ActiveOrders(DB)) <= 1)
    /\ [][C1_AcceptStep]_vars

\* C1, witness: the take button of the confirmation left open in the other
\* chat was answered ORDER_ALREADY while the order accepted in the main chat
\* is Active.
C1_Witness ==
    /\ out.msg = "order_already"
    /\ hist.takes = 2
    /\ Cardinality(ActiveOrders(DB)) = 1
    /\ \E a \in ActiveOrders(DB) : a.id = hist.orders

\* The rows of user_orders that exist before and after a step keep their
\* required_clicks and reward_snapshot_mul.
SnapshotsKept ==
    \A o \in user_orders : \A p \in user_orders' :
        o.id = p.id => /\ p.required_clicks = o.required_clicks
                       /\ p.reward_snapshot_mul = o.reward_snapshot_mul

\* The row of the order a completed click paid, as it is stored.
PaidRows == {o \in user_orders : o.id = out.finish.id}

\* C2, the payout: the base reward of a completed order is computed from the
\* required_clicks and reward_snapshot_mul stored on its row.
C2_PayoutFromRow ==
    out.msg = "order_done" =>
        /\ PaidRows # {}
        /\ \A o \in PaidRows :
              /\ o.finished
              /\ out.finish.reward_base
                     = finish_order_reward(o.required_clicks, o.reward_snapshot_mul)

\* C2, purchases and trends: in every reachable state, buying any boost and
\* rolling a new trend leave the rows of user_orders as they are.
C2_PurchaseKeepsRows ==
    /\ \A code \in BoostCodes :
          shop_buy_boost(DB, [FsmClear EXCEPT !.state = "shop_confirm_boost",
                                              !.boost_id = code], now).db.orders
              = user_orders
    /\ \A order_id \in OrderIds : admin_roll_trend(DB, order_id, now).orders = user_orders

PaidAcceptances == {a \in DOMAIN hist.accepted : hist.accepted[a].id = out.finish.id}

NewPassiveRows ==
    {i \in (Len(economy_log) + 1)..Len(economy_log') : economy_log'[i].type = "passive"}

\* floor(rate x elapsed) for the rate of the player in db at time t.
PassiveFor(db, t, elapsed) == MulDivFloor(RateNum(db, Stats(db, t)), elapsed, RateDen)

\* MAX_OFFLINE_SECONDS plus the offline-cap bonus of the player in db at time t.
OfflineCap(db, t) == MAX_OFFLINE_SECONDS + Stats(db, t).offline_cap_bonus

\* C5, one step: every passive amount a handler grants is at most
\* floor(rate x offline_cap), with the rate and the cap of the moment.
C5_AccrualStep ==
    \A i \in NewPassiveRows :
        economy_log'[i].amount <= PassiveFor(DB, now, OfflineCap(DB, now))

\* C5: whatever the time since last_seen, ten times the cap included, one
\* passive accrual grants at most floor(rate x offline_cap), where offline_cap
\* is MAX_OFFLINE_SECONDS plus the offline-cap bonus of the player and rate is
\* the passive rate per second computed at the accrual.
C5_OfflineCap == [][C5_AccrualStep]_vars

\* C5, witness: after an absence of ten times the cap a handler granted a
\* passive amount equal to floor(rate x offline_cap), an amount below
\* floor(rate x elapsed), to a player with an offline-cap bonus.
C5_Witness ==
    /\ now >= StartTime + 10 * MAX_OFFLINE_SECONDS
    /\ user.last_seen = now
    /\ Stats(DB, now).offline_cap_bonus > 0
    /\ economy_log # <<>>
    /\ economy_log[Len(economy_log)].type = "passive"
    /\ economy_log[Len(economy_log)].amount = PassiveFor(DB, now, OfflineCap(DB, now))
    /\ economy_log[Len(economy_log)].amount < PassiveFor(DB, now, 10 * MAX_OFFLINE_SECONDS)

(* ------------------------------------------------------------------ *)
(* EventResolver: the shield                                            *)
(* ------------------------------------------------------------------ *)
\* What apply_random_event must do with the event code on the database db,
\* given its answer r.
ShieldRule(db, code, r) ==
    IF is_negative_event(EventCatalog[code]) /\ db.boosts[EVENT_SHIELD_CODE] >= 1
    THEN /\ r.result = "shield_block"
         /\ r.db.boosts[EVENT_SHIELD_CODE] = db.boosts[EVENT_SHIELD_CODE] - 1
         /\ r.db = [db EXCEPT !.boosts[EVENT_SHIELD_CODE] = r.db.boosts[EVENT_SHIELD_CODE]]
         /\ r.db.user = db.user
         /\ r.db.buffs = db.buffs
         /\ has_pending_interactive_event(r.db) = has_pending_interactive_event(db)
    ELSE /\ r.result # "shield_block"
         /\ r.db.boosts = db.boosts
         /\ is_negative_event(EventCatalog[code]) =>
               /\ r.result \in {"applied", "pending"}
               /\ r.result = "pending" =>
                     \E i \in DOMAIN r.db.buffs :
                         r.db.buffs[i].pending /\ r.db.buffs[i].code = code
               /\ r.result = "applied" =>
                     /\ r.db.user.balance
                            = Max(0, db.user.balance
                                     + BalanceDelta(db.user, EventCatalog[code].effect))
                     /\ r.db.user.balance <= db.user.balance
                     /\ db.user.balance > 0 /\ EffectNegative(EventCatalog[code].effect)
                            /\ "balance_pct" \in DOMAIN EventCatalog[code].effect
                          => r.db.user.balance < db.user.balance

\* C6: in every reachable state and for every event of the catalogue, a
\* negative event meeting at least one shield charge removes exactly one
\* charge and changes nothing else (balance, xp, level and buffs are kept, no
\* pending event appears); an event that is not negative removes no charge; a
\* negative event meeting zero charges is applied; the charges are never
\* negative.
C6_ShieldNegatesOnce ==
    /\ user_boosts[EVENT_SHIELD_CODE] >= 0
    /\ \A code \in EventCodes :
          /\ ShieldRule(DB, code, apply_random_event(DB, code, now))
          /\ apply_random_event(DB, code, now).db.boosts[EVENT_SHIELD_CODE] >= 0

\* C6, witness: a click drew a negative event, the only shield charge of the
\* player blocked it, and the player went on without a charge.
C6_Witness ==
    /\ out.msg \in {"click", "order_done"}
    /\ "shield_block" \in {out.event[1], out.event[2]}
    /\ hist.events = 1
    /\ user_boosts[EVENT_SHIELD_CODE] = 0
    /\ \E code \in EventCodes :
          /\ is_negative_event(EventCatalog[code])
          /\ apply_random_event(DB, code, now).result \in {"applied", "pending"}

IsNearest(n, x, d) ==
    /\ 2 * (n * d - x) <= d
    /\ 2 * (x - n * d) <= d
    /\ (2 * (n * d - x) = d \/ 2 * (x - n * d) = d) => n % 2 = 0

RecentAdmissions(i) ==
    {j \in 1..(i - 1) : hist.tried[j].ok /\ hist.tried[i].t - hist.tried[j].t <= RATE_WINDOW}

\* Whether s is a suffix of q.
IsSuffix(s, q) ==
    /\ Len(s) <= Len(q)
    /\ \A i \in 1..Len(s) : s[i] = q[Len(q) - Len(s) + i]

\* C7: with a fixed limit L and an empty window at the start, of the attempts
\* made within one second of the first exactly the first L are admitted and
\* the others rejected; no L + 1 admissions lie within one second; an attempt
\* is admitted whenever fewer than L admissions lie in the second before it,
\* in particular once the window has slid past them all, and rejected
\* otherwise; the deque records admissions only.
C7_SlidingWindow ==
    /\ \A i \in DOMAIN hist.tried :
          hist.tried[i].t - hist.tried[1].t <= RATE_WINDOW =>
              (hist.tried[i].ok <=> i <= hist.limit)
    /\ \A i \in DOMAIN admitted :
          i + hist.limit \in DOMAIN admitted =>
              admitted[i + hist.limit] - admitted[i] > RATE_WINDOW
    /\ \A i \in DOMAIN hist.tried :
          hist.tried[i].ok <=> Cardinality(RecentAdmissions(i)) < hist.limit
    /\ IsSuffix(events, admitted)
    /\ Len(admitted) = Cardinality({i \in DOMAIN hist.tried : hist.tried[i].ok})

\* C7, witness: L attempts admitted in one second, the next one in that
\* second rejected, a further rejected one, and an attempt two seconds later
\* admitted again.
C7_Witness ==
    /\ hist.limit = 2
    /\ Len(hist.tried) = 5
    /\ hist.tried[1].ok /\ hist.tried[2].ok /\ ~hist.tried[3].ok /\ ~hist.tried[4].ok
    /\ hist.tried[4].t - hist.tried[1].t <= RATE_WINDOW
    /\ hist.tried[5].ok
    /\ hist.tried[5].t - hist.tried[4].t > RATE_WINDOW
    /\ out.msg = "admitted"

(* ------------------------------------------------------------------ *)
(* A rejected click                                                     *)
(* ------------------------------------------------------------------ *)
\* A step in which the click button was answered TOO_FAST.
RejectedClick == hist'.clicks = hist.clicks + 1 /\ out'.msg = "too_fast"

\* C8 as stated: a click the rate limiter rejects changes nothing: the orders,
\* the user row (clicks_total, balance, xp, last_seen), the stored buffs, the
\* shield charges and the deque of the limiter are as before.
C8_RejectedClickNoOp ==
    [][RejectedClick => UNCHANGED << user, user_orders, user_buffs, user_boosts, events >>]_vars

(* ------------------------------------------------------------------ *)
(* PrestigeEngine                                                       *)
(* ------------------------------------------------------------------ *)
\* A step in which confirm_studio performed the reset.
ResetStep == hist'.resets = hist.resets + 1

\* C9, the reset: what the step leaves.
C9_ResetEffect ==
    ResetStep =>
        /\ out'.msg = "studio_done"
        /\ prestige'.reputation = prestige.reputation + Max(0, out'.gain)
        /\ prestige'.resets = prestige.resets + 1
        /\ user'.balance = 200
        /\ user'.cp_base = 1
        /\ user'.level = 1
        /\ user'.xp = 0
        /\ user'.reward_mul = 0
        /\ user'.passive_mul = 0
        /\ \A c \in BoostCodes : user_boosts'[c] = 0
        /\ \A c \in TeamCodes : user_team'[c] = 0
        /\ user_items' = {}
        /\ user_skills' = {}
        /\ user_buffs' = <<>>
        /\ user_orders' = {}
        /\ Cardinality(DOMAIN user_equipment') = 6
        /\ \A sl \in DOMAIN user_equipment' : user_equipment'[sl] = None

\* C9: prestige execute adds max(0, gain) to the reputation, adds 1 to the
\* reset counter, resets balance to 200, base click power to 1, level to 1,
\* experience to 0 and the permanent reward and passive bonuses to 0, removes
\* every boost, team member, item, skill, buff (a pending event included) and
\* order and empties the six equipment slots; no step ever decreases the
\* reputation.
C9_PrestigeReset ==
    /\ [][C9_ResetEffect]_vars
    /\ [][prestige'.reputation >= prestige.reputation]_vars
    /\ [][~ResetStep => prestige' = prestige]_vars

\* C9, witness: the level-20 player, who held boosts, a team, items, a skill
\* and one reputation point, has reset with a gain of 2 while an order was
\* Active or a buff stored before, and now holds 3 points and nothing else.
C9_Witness ==
    /\ out.msg = "studio_done"
    /\ out.gain = 2
    /\ prestige = [reputation |-> 3, resets |-> 2]
    /\ user.balance = 200 /\ user.level = 1
    /\ user_orders = {} /\ user_buffs = <<>>
    /\ hist.takes > 0

\* The lifetime-earned amount of a log: the sum of the positive amounts of
\* its order_finish, quest_reward and campaign_reward rows.
LifetimeEarned(log) ==
    SumSeq([i \in DOMAIN log |->
               IF /\ log[i].type \in {"order_finish", "quest_reward", "campaign_reward"}
                  /\ log[i].amount > 0
               THEN log[i].amount ELSE 0])

\* g is floor(sqrt(total / 1000)) for total > 0, and 0 for total <= 0.
IsGain(g, total) ==
    IF total <= 0 THEN g = 0
    ELSE g >= 0 /\ g * g * 1000 <= total /\ total < (g + 1) * (g + 1) * 1000

\* C10: the prestige gain is floor(sqrt(L / 1000)) for every L > 0 and 0 for
\* every L <= 0, and the L of a player is the sum of the positive amounts of
\* the order_finish, quest_reward and campaign_reward rows of the log.
C10_PrestigeGain ==
    /\ out.msg = "gain" => IsGain(out.gain, out.total)
    /\ out.msg = "prestige_preview" =>
          /\ out.total = LifetimeEarned(economy_log)
          /\ IsGain(out.gain, out.total)

\* C10, witness: a gain of 2 computed for a log holding 4000 earned in two
\* rows beside a row that does not count, and a gain of 1 computed for 3999.
C10_Witness ==
    \/ /\ out.msg = "prestige_preview" /\ out.gain = 2 /\ out.total = 4000
       /\ \E i \in DOMAIN economy_log :
             economy_log[i].amount > 0 /\ economy_log[i].type \notin EarningTypes
    \/ out.msg = "gain" /\ out.total = 3999 /\ out.gain = 1

(* ------------------------------------------------------------------ *)
(* QuestFSM: a completed quest                                          *)
(* ------------------------------------------------------------------ *)
\* A step of a quest handler: the clock stands still.
QuestStep == now' = now /\ "handler" \in DOMAIN out'

\* The quest a message of the step was about when it was sent in chat c: the
\* active quest of quest_playing (for a text other than the back button), the
\* quest the stored mapping gives for the name typed in quest_select.
Submitted(c) ==
    IF out'.chat # c THEN {}
    ELSE IF out'.handler = "quest_playing" /\ fsm[c].state = "quest_playing"
    THEN (IF out'.input >= 0 THEN {fsm[c].active_quest} \cap QuestCodes ELSE {})
    ELSE IF out'.handler = "quest_select" /\ fsm[c].state = "quest_selecting"
    THEN {out'.input} \cap fsm[c].quest_choices
    ELSE {}

IsDone(quests, q) == q \in DOMAIN quests /\ quests[q].is_done

\* The rows of the log that pay a quest reward.
QuestPayments(log) == {i \in DOMAIN log : log[i].type = "quest_reward" /\ log[i].amount > 0}

\* C11 (first part): a message for a quest that is done is answered
\* QUEST_ALREADY_DONE and leaves the quest row, the balance, the experience,
\* the level and the quest rewards of the log as they were.
C11_Rejected ==
    QuestStep =>
        \A c \in Chats : \A q \in Submitted(c) :
            IsDone(user_quests, q) =>
                /\ out'.msg = "quest_already_done"
                /\ user_quests'[q] = user_quests[q]
                /\ user'.balance = user.balance
                /\ user'.xp = user.xp /\ user'.level = user.level
                /\ QuestPayments(economy_log') = QuestPayments(economy_log)

\* C11 (second part): a quest that is done stays done, and a reward is paid
\* in exactly the steps in which a quest becomes done.
C11_PaidOnCompletion ==
    QuestStep =>
        /\ \A q \in QuestCodes : IsDone(user_quests, q) => IsDone(user_quests', q)
        /\ Cardinality(QuestPayments(economy_log')) - Cardinality(QuestPayments(economy_log))
               = Cardinality({q \in QuestCodes :
                                 IsDone(user_quests', q) /\ ~IsDone(user_quests, q)})

\* C11: after a quest is done, submitting an option for it is rejected with
\* QUEST_ALREADY_DONE and changes neither the quest's payload and stage, nor
\* the balance and experience, nor the quest rewards logged: one completion
\* pays once.
C11_DoneQuestRejected == [][C11_Rejected /\ C11_PaidOnCompletion]_vars

\* An option was submitted in quest_playing for a quest completed in the
\* other chat, and was answered QUEST_ALREADY_DONE.
C11_Witness ==
    /\ out.msg = "quest_already_done"
    /\ out.handler = "quest_playing" /\ out.input > 0
    /\ IsDone(user_quests, out.quest)
    /\ QuestPayments(economy_log) # {}

(* ------------------------------------------------------------------ *)
(* QuestFSM: the reward key                                             *)
(* ------------------------------------------------------------------ *)
\* The traits of a payload that hold its highest value.
TopTraits(payload) == {k \in DOMAIN payload : \A j \in DOMAIN payload : payload[k] >= payload[j]}

AllZero(payload) == \A k \in DOMAIN payload : payload[k] = 0

\* C12: when a quest is completed, the reward key is the trait with the
\* highest accumulated value, and it is "default" when the payload is all
\* zero or the highest value is shared by two or more traits.
C12_RewardKeyOrDefault ==
    ("reward_key" \in DOMAIN out /\ out.msg = "quest_finish") =>
        IF AllZero(user_quests[out.quest].payload)
           \/ Cardinality(TopTraits(user_quests[out.quest].payload)) >= 2
        THEN out.reward_key = "default"
        ELSE out.reward_key \in TopTraits(user_quests[out.quest].payload)

(* ------------------------------------------------------------------ *)
(* Pending interactive events                                          *)
(* ------------------------------------------------------------------ *)

PendingEvents(buffs) == {i \in DOMAIN buffs : buffs[i].pending}

\* A step of the /test_event_choice command.
TestEventStep == hist'.admin = hist.admin + 1 /\ out'.msg = "test_event_choice"

\* C13: a player has at most one pending interactive event, and an event
\* applied while one is pending - here by the administrative test command -
\* changes nothing: no effect, no buff, no shield charge, no new pending entry.
C13_PendingSuppressesEvents ==
    [][/\ Cardinality(PendingEvents(user_buffs')) <= 1
       /\ (has_pending_interactive_event(DB) /\ TestEventStep) =>
              UNCHANGED << user, user_boosts, user_buffs, economy_log >>]_vars

(* ------------------------------------------------------------------ *)
(* Acceptance and the level of the template                            *)
(* ------------------------------------------------------------------ *)

\* The rows a step adds to user_orders.
OrdersAdded == user_orders' \ user_orders

LevelLocked(c) == OrderCatalog[fsm[c].order_id].min_level > user.level

\* C16: an accept never creates an order whose template min_level is above
\* the level of the player at that moment; it fails and changes nothing.
C16_NoOrderAboveLevel ==
    [][TakeStep =>
          /\ \A o \in OrdersAdded : OrderCatalog[o.order_id].min_level <= user.level
          /\ \A c \in Chats :
                (fsm[c].state = "orders_confirm" /\ fsm'[c].state # "orders_confirm"
                 /\ LevelLocked(c)) => UNCHANGED << user, user_orders >>]_vars

(* ------------------------------------------------------------------ *)
(* OrderLifecycle: terminal statuses and the single payment             *)
(* ------------------------------------------------------------------ *)

\* The orders a step moves from Active to Finished.
Finishing ==
    {o \in user_orders : IsActive(o) /\ \E p \in user_orders' : p.id = o.id /\ p.finished}

FinishEntries(log) == {i \in DOMAIN log : log[i].type = "order_finish"}

\* The experience a user row stands for, counted from level 1.
RECURSIVE TotalXp(_, _)
TotalXp(level, xp) == IF level <= 1 THEN xp ELSE TotalXp(level - 1, xp + xp_to_level(level - 1))

DailyDone(u) == {c \in DailyCodes : u.daily_task_state[c].done}

\* C17, the rows: a row keeps a terminal status, a new row starts Active.
C17_StatusKept ==
    /\ \A o \in user_orders : \A p \in user_orders' :
          o.id = p.id => /\ o.finished => p.finished
                         /\ o.canceled => p.canceled
    /\ \A p \in user_orders' : (\A o \in user_orders : o.id # p.id) => IsActive(p)
    /\ \A p \in user_orders' : ~(p.finished /\ p.canceled)

\* C17, the payment: the reward and the experience of an order are credited
\* in the step that finishes it and in no other step.
C17_PaidOnFinish ==
    ~ResetStep =>
        /\ Cardinality(Finishing) <= 1
        /\ Cardinality(FinishEntries(economy_log'))
               = Cardinality(FinishEntries(economy_log)) + Cardinality(Finishing)
        /\ user'.orders_completed = user.orders_completed + Cardinality(Finishing)
        /\ Finishing # {} =>
              /\ \A o \in Finishing : out'.finish.id = o.id
              /\ \A i \in FinishEntries(economy_log') :
                     i > Len(economy_log) => economy_log'[i].amount = out'.finish.reward
              /\ (out'.event = <<"none", "none">> /\ DailyDone(user') = DailyDone(user)) =>
                     /\ user'.balance = user.balance + out'.finish.reward
                                          + user'.passive_income_collected
                                          - user.passive_income_collected
                     /\ TotalXp(user'.level, user'.xp)
                            = TotalXp(user.level, user.xp) + out'.finish.xp_gain

\* C17: the status of an order only moves Active -> Finished or Active ->
\* Canceled: a Finished or Canceled order never becomes Active again, no
\* order is both, and the finish reward and experience of an order are
\* credited exactly once.
C17_TerminalStatuses == [][C17_StatusKept /\ C17_PaidOnFinish]_vars

\* C17, witness: the second order of the behaviour was finished and paid while
\* an earlier order of the player is Canceled.
C17_Witness ==
    /\ out.msg = "order_done"
    /\ \E o \in user_orders : o.id = out.finish.id /\ o.finished /\ ~o.canceled
    /\ \E o \in user_orders : o.canceled /\ ~o.finished
    /\ out.finish.reward > 0

(* ------------------------------------------------------------------ *)
(* Progress of the active order                                         *)
(* ------------------------------------------------------------------ *)

\* A step of the click button that the rate limiter admitted.
AdmittedClick == hist'.clicks = hist.clicks + 1 /\ out'.msg \in {"click", "order_done"}

ProgressInRange == \A o \in ActiveOrders(DB) : 0 <= o.progress_clicks
                                               /\ o.progress_clicks < o.required_clicks

\* C18, the click: the active order gains the effective click power capped
\* at required_clicks; it is Finished in this step exactly when the progress
\* reaches required_clicks.
C18_ClickAdds ==
    AdmittedClick =>
        \A a \in ActiveOrders(DB) : \E p \in user_orders' :
            /\ p.id = a.id
            /\ p.progress_clicks
                   = Min(a.required_clicks, a.progress_clicks + Max(1, Stats(DB, now).cp))
            /\ p.finished <=> p.progress_clicks >= p.required_clicks
            /\ p.finished <=> out'.msg = "order_done"
            /\ ~p.canceled

\* C18: every Active order has 0 <= progress_clicks < required_clicks in every
\* reachable state, also right after an acceptance with a free start; an
\* admitted click adds its effective power capped at required_clicks and
\* finishes the order in the same step in which the progress reaches it.
C18_ProgressBelowRequired == [](ProgressInRange) /\ [][C18_ClickAdds]_vars

\* C18, witness: one click after an acceptance with a free start, the active
\* order holds more progress than the click alone gave.
C18_Witness ==
    /\ out.msg = "click"
    /\ hist.clicks = 1
    /\ hist.ticks = 0
    /\ \E o \in ActiveOrders(DB) : /\ o.id = hist.orders
                                   /\ o.progress_clicks > Max(1, Stats(DB, now).cp)
                                   /\ o.progress_clicks < o.required_clicks

(* ------------------------------------------------------------------ *)
(* Cancel                                                               *)
(* ------------------------------------------------------------------ *)

\* A step of the cancel-order button.
CancelStep == hist'.cancels = hist.cancels + 1

\* What a cancel leaves alone: balance, xp, level and the owned modifiers.
CancelFrame ==
    /\ user'.balance = user.balance /\ user'.xp = user.xp /\ user'.level = user.level
    /\ UNCHANGED << user_boosts, user_team, user_items, user_equipment, user_skills,
                    user_buffs, prestige, economy_log >>

\* C19, the cancel: with an Active order the order is marked Canceled and
\* nothing else changes; without one the answer is "no active order" and the
\* database is as before.
C19_CancelStep ==
    CancelStep =>
        IF ActiveOrders(DB) # {}
        THEN /\ out'.msg = "order_canceled"
             /\ user_orders' = (user_orders \ ActiveOrders(DB))
                                   \cup {[a EXCEPT !.canceled = TRUE] : a \in ActiveOrders(DB)}
             /\ ActiveOrders(DB') = {}
             /\ CancelFrame
        ELSE /\ out'.msg = "no_active_order"
             /\ UNCHANGED << user, user_orders >>
             /\ CancelFrame

\* C19, the next order: an order accepted after a cancel starts from its own
\* initial progress, 0 or the free start of its own required_clicks.
C19_FreshStart ==
    TakeStep =>
        \A o \in OrdersAdded :
            o.progress_clicks
                \in {0, Min(o.required_clicks,
                            Max(1, Round(o.required_clicks * FREE_ORDER_PROGRESS_PCT, 100)))}

\* C19: cancel requires an Active order: it marks the order Canceled, discards
\* its progress (the next accepted order starts from its own initial progress)
\* and leaves balance, xp, level and owned modifiers unchanged; with no Active
\* order it fails and changes nothing.
C19_CancelOnlyCancels == [][C19_CancelStep /\ C19_FreshStart]_vars

\* C19, witness: an order with progress was canceled and the next order was
\* accepted with no progress.
C19_Witness ==
    /\ out.msg = "order_taken"
    /\ hist.cancels = 1
    /\ \E o \in user_orders : /\ o.id = hist.orders - 1
                              /\ o.canceled /\ o.progress_clicks > 0
    /\ \E o \in ActiveOrders(DB) : o.id = hist.orders /\ o.progress_clicks = 0

(* ------------------------------------------------------------------ *)
(* Orders: template reference and reward snapshot                      *)
(* ------------------------------------------------------------------ *)

\* C20: every order that holds progress references an existing order
\* template, and the reward snapshot multiplier of every order is strictly
\* positive, whatever boosts, skills, equipment and buffs the player had when
\* the order was accepted.
C20_SnapshotPositive ==
    \A o \in user_orders :
        /\ o.progress_clicks > 0 => o.order_id \in OrderIds
        /\ o.reward_snapshot_mul > 0

(* ------------------------------------------------------------------ *)
(* Failures: all-or-nothing                                             *)
(* ------------------------------------------------------------------ *)

\* A step in which a handler raised and safe_handler answered.
FailStep == out' = safe_handler /\ hist' # hist

\* C15: when an action fails after it has begun mutating state, balance, xp,
\* level, the orders, the owned modifiers, the buffs and the economy log are
\* exactly as they were before the action.
C15_FailureChangesNothing ==
    [][FailStep => UNCHANGED << user, user_orders, user_boosts, user_team, user_items,
                                user_equipment, user_skills, user_buffs, economy_log >>]_vars

(* ------------------------------------------------------------------ *)
(* Interleaved handlers of one player                                   *)
(* ------------------------------------------------------------------ *)

\* The tasks whose handler commits in a step.
Ended == {i \in Tasks : inflight[i].handler # None /\ inflight'[i].handler = None}

\* C14, the commit: a handler that commits logs the payment of an order only
\* if its commit is the one that finishes the order.
C14_CommitStep ==
    Ended # {} =>
        Cardinality(FinishEntries(economy_log'))
            <= Cardinality(FinishEntries(economy_log)) + Cardinality(Finishing)

\* C14: handlers of one player that interleave at their awaits leave the
\* state a sequential run leaves: no second Active order is created and no
\* order reward is applied twice.
C14_Serialized ==
    /\ [](Cardinality(ActiveOrders(DB)) <= 1)
    /\ [][C14_CommitStep]_vars

(* ------------------------------------------------------------------ *)
(* PassiveAccrual: last_seen                                            *)
(* ------------------------------------------------------------------ *)

\* C21, the accrual: in every reachable state an accrual leaves last_seen at
\* the current time, whatever it grants, and an accrual applied right after
\* it grants 0 and changes nothing.
C21_SecondAccrualIsEmpty ==
    LET first == apply_offline_income(DB, now)
        second == apply_offline_income(first.db, now)
    IN  /\ first.db.user.last_seen = now
        /\ second.amount = 0
        /\ second.db = first.db

\* C21, the steps: a step that credits passive income leaves last_seen at the
\* time of the step.
C21_CreditStep ==
    (~ResetStep /\ user'.passive_income_collected # user.passive_income_collected) =>
        /\ user'.last_seen = now'
        /\ user'.passive_income_collected > user.passive_income_collected

\* C21: every passive accrual sets last_seen to the current time, also when
\* the amount granted is 0; a second accrual applied immediately after the
\* first grants 0, so no time window is paid twice.
C21_LastSeenAdvances == [](C21_SecondAccrualIsEmpty) /\ [][C21_CreditStep]_vars

\* C21, witness: time passed, a handler ran the accrual for a player without
\* passive income: nothing was granted and last_seen is the current time.
C21_Witness ==
    /\ now > StartTime
    /\ user.last_seen = now
    /\ user.passive_income_collected = 0
    /\ apply_offline_income(DB, now).amount = 0

(* ------------------------------------------------------------------ *)
(* StatAggregation: buffs                                               *)
(* ------------------------------------------------------------------ *)

\* The times at which the buffs of the player are examined: the current time
\* and, for each stored buff, the second it expires and the second before.
ProbeTimes ==
    {now} \cup UNION {{user_buffs[i].expires_at, user_buffs[i].expires_at - 1} :
                         i \in 1..Len(user_buffs)}

\* The stored buffs whose expiry is after t.
FutureBuffs(t) == SelectSeq(user_buffs, LAMBDA b : b.expires_at > t)

\* C22: a buff whose expiry is at or before the time of the call contributes
\* to no value get_user_stats returns and is deleted by the call; a buff whose
\* expiry is in the future is kept and counted; a second call at the same time
\* returns the same values and deletes nothing more.
C22_ExpiredBuffsDropped ==
    \A t \in ProbeTimes :
        LET r == get_user_stats(DB, t)
        IN  /\ r.db.buffs = FutureBuffs(t)
            /\ r.db = [DB EXCEPT !.buffs = FutureBuffs(t)]
            /\ r.stats = StatsOf(DB, BoostTotals(DB),
                                 EquipTotals(DB, 100 + Get(BoostTotals(DB), "equipment_eff", 0)),
                                 BuffTotals(FutureBuffs(t)), SkillTotals(DB))
            /\ get_user_stats(r.db, t) = r

\* C22, witness: the player holds a buff that has expired and the call
\* deletes it.
C22_Witness ==
    /\ \E i \in 1..Len(user_buffs) : user_buffs[i].expires_at <= now
    /\ get_user_stats(DB, now).db.buffs # user_buffs

(* ------------------------------------------------------------------ *)
(* StatAggregation: caps                                                *)
(* ------------------------------------------------------------------ *)

\* C23: for any boost levels, equipment, skills and buffs get_user_stats
\* returns crit_chance in [0, 0.95], negative_event_weight_mul in [0.10, 1]
\* (a resistance in [0, 0.90]), shop_discount_pct in [0, 0.20],
\* team_upgrade_discount_pct in [0, 0.80], free_order_chance in [0, 0.95] and
\* req_clicks_pct in [0, 0.95], of which the boosts give at most 0.30.
C23_StatsWithinCaps ==
    out.msg = "stats" =>
        /\ out.stats.crit_chance \in 0..95
        /\ out.stats.negative_event_weight_mul \in 10..100
        /\ 100 - out.stats.negative_event_weight_mul \in 0..90
        /\ out.stats.shop_discount_pct \in 0..20
        /\ out.stats.team_upgrade_discount_pct \in 0..80
        /\ out.stats.free_order_chance \in 0..95
        /\ out.stats.req_clicks_pct \in 0..95
        /\ out.stats.req_clicks_pct
               <= 30 + StatsWithBoosts(
                           DB, BoostTotalsWith(DB, [out.levels EXCEPT !.requirement_relief = 0]),
                           now).req_clicks_pct

\* C23, witness: every capped boost is far above its cap and every value
\* returned sits on its cap; the effort reduction is the item's 3 % plus the
\* 30 % the boosts may give.
C23_Witness ==
    /\ out.msg = "stats"
    /\ \A c \in CappedCodes : out.levels[c] = 40
    /\ user_boosts.anti_brak = 40 /\ user_boosts.quick_briefs = 40
    /\ out.stats.crit_chance = 95
    /\ out.stats.negative_event_weight_mul = 10
    /\ out.stats.shop_discount_pct = 20
    /\ out.stats.team_upgrade_discount_pct = 80
    /\ out.stats.free_order_chance = 95
    /\ out.stats.req_clicks_pct = 33

(* ------------------------------------------------------------------ *)
(* StatAggregation: the final values                                    *)
(* ------------------------------------------------------------------ *)

\* The player of the current state with the middle stack in place of the
\* stack s: s.levels fewer levels of reward_mastery and passive_income_plus
\* but 8, s.buffs fewer perfect_flow buffs but 7.
SmallerStack(s) ==
    [DB EXCEPT !.boosts.reward_mastery = @ - s.levels + 8,
               !.boosts.passive_income_plus = @ - s.levels + 8,
               !.buffs = SelectSeq(@, LAMBDA b : b.code # "perfect_flow")
                         \o <<user_buffs[1]>> \o FlowBuffs(7)]

\* The final values of a dictionary get_user_stats returned.
FinalValues(stats) ==
    [cp |-> stats.cp, reward_mul_total |-> stats.reward_mul_total,
     passive_mul_total |-> stats.passive_mul_total]

\* C24: the power, reward and passive percentages are clamped to a cap before
\* they are combined into cp, reward_mul_total and passive_mul_total, so the
\* final values stop growing with the stack: a player whose aggregates are
\* each 600 % or more gets the final values of the same player with
\* aggregates just above 100 %.
C24_FinalValuesBounded ==
    \A s \in Stacks :
        (/\ out.msg = "stats"
         /\ s.levels = 40
         /\ Len(SelectSeq(user_buffs, LAMBDA b : b.code = "perfect_flow")) = 1 + s.buffs
         /\ user_boosts.passive_income_plus = s.levels)
        => FinalValues(out.stats)
               = FinalValues(StatsWithBoosts(SmallerStack(s),
                                             BoostTotalsWith(SmallerStack(s), out.levels), now))

(* ------------------------------------------------------------------ *)
(* PrestigeEngine: the preview                                          *)
(* ------------------------------------------------------------------ *)

\* What show_studio would answer in the current state.
StudioNow == show_studio(DB, fsm[MainChat], now)

\* The gain a preview reports is floor(sqrt(L / 1000)) of the lifetime
\* earnings L: the studio screen (answer r) offers the reset with that gain
\* exactly when it is positive, the admin command (answer a) prints it.
PreviewGain(r, a) ==
    /\ r.out = "studio_confirm" =>
          /\ r.fsm.total_earned = LifetimeEarned(economy_log)
          /\ r.fsm.gain > 0
          /\ IsGain(r.fsm.gain, r.fsm.total_earned)
    /\ r.out = "studio_info" => IsGain(0, LifetimeEarned(economy_log))
    /\ a.total = LifetimeEarned(economy_log)
    /\ IsGain(a.gain, LifetimeEarned(economy_log))

\* The rows a preview has nothing to do with are as they were.
PreviewFrame(db) ==
    /\ db.prestige = prestige
    /\ db.user.level = user.level /\ db.user.xp = user.xp
    /\ db.orders = user_orders
    /\ db.boosts = user_boosts /\ db.team = user_team
    /\ db.items = user_items /\ db.equipment = user_equipment
    /\ db.skills = user_skills /\ db.quests = user_quests /\ db.trend = trend

\* The answers r of the studio screen and a of the admin command leave every
\* row as it is.
MutatesNothing(r, a) ==
    /\ PreviewGain(r, a)
    /\ PreviewFrame(r.db) /\ PreviewFrame(a.db)
    /\ r.db.user.balance = user.balance
    /\ r.db.user.last_seen = user.last_seen
    /\ r.db.buffs = user_buffs
    /\ a.db = DB

OnlyAccrues(r, a, paid) ==
    /\ PreviewGain(r, a)
    /\ PreviewFrame(r.db) /\ PreviewFrame(a.db)
    /\ a.db = DB
    /\ paid = PassiveAmount(DB, Stats(DB, now),
                            Min(Max(0, now - user.last_seen),
                                MAX_OFFLINE_SECONDS + Stats(DB, now).offline_cap_bonus))
    /\ r.db.user = [user EXCEPT !.balance = @ + paid,
                                !.passive_income_collected = @ + paid,
                                !.last_seen = now]
    /\ r.db.buffs = SelectSeq(user_buffs, LAMBDA b : b.expires_at > now)
    /\ r.db.log = IF paid > 0
                  THEN Append(economy_log, [type |-> "passive", amount |-> paid])
                  ELSE economy_log

DoneKept == \A q \in QuestCodes : IsDone(user_quests, q) => IsDone(user_quests', q)

\* The quest rewards paid to the player in this behaviour are at most one per
\* quest code (the log of the player who starts after a reset holds one
\* payment already).
PaidOnce ==
    Cardinality(QuestPayments(economy_log))
        <= Cardinality(QuestCodes) + (IF prestige.resets >= 1 THEN 1 ELSE 0)

\* C26: per quest code the quest only moves forward and Done is terminal:
\* over any sequence of actions of the player, a prestige reset included, a
\* quest that is done stays done, so it is never started again and its reward
\* is paid at most once.
C26_DoneIsTerminal == [][DoneKept]_vars /\ [](PaidOnce)

(* ------------------------------------------------------------------ *)
(* PrestigeEngine: one conversion                                       *)
(* ------------------------------------------------------------------ *)

\* The log holds a prestige reset and no earnings after the last one.
NoEarningsSinceReset(log) ==
    \E i \in DOMAIN log :
        /\ log[i].type = "prestige_reset"
        /\ \A j \in DOMAIN log :
              j > i => ~(log[j].type \in EarningTypes /\ log[j].amount > 0)

\* C27: the lifetime earnings are converted into reputation once: a prestige
\* reset performed when nothing was earned since the previous reset adds 0
\* reputation.
C27_ConvertedOnce ==
    [][(ResetStep /\ NoEarningsSinceReset(economy_log))
           => prestige'.reputation = prestige.reputation]_vars

(* ------------------------------------------------------------------ *)
(* RewardFormula: the floor under the snapshot multiplier               *)
(* ------------------------------------------------------------------ *)

\* C28: finish_order_reward(r, m) is base_reward_from_required(r, m) for
\* every snapshot multiplier m >= 1 and base_reward_from_required(r, 1.0) for
\* every m < 1, 0 included, for every required effort r.
C28_SnapshotFloor ==
    out.msg = "reward" =>
        /\ out.mul >= 10000 => out.reward = base_reward_from_required(out.req, out.mul)
        /\ out.mul < 10000 => out.reward = base_reward_from_required(out.req, 10000)

\* C28, witness: the reward computed for r = 12 under a snapshot multiplier
\* of 0 is the 7 that the multiplier 1.0 pays.
C28_Witness ==
    /\ out.msg = "reward"
    /\ out.req = 12 /\ out.mul = 0
    /\ out.reward = 7
    /\ base_reward_from_required(12, 0) = 0

(* ------------------------------------------------------------------ *)
(* OrderLifecycle: the required effort of an accepted order             *)
(* ------------------------------------------------------------------ *)

\* C29: the required_clicks stored on an accepted order is
\* snapshot_required_clicks of its template, the level of the player and the
\* effort reduction of the player at the moment take_order accepts it,
\* whatever happened since the order was selected.
C29_EffortAtAcceptance ==
    [][(TakeStep /\ out'.msg = "order_taken") =>
          \A o \in user_orders' \ user_orders :
              o.required_clicks
                  = snapshot_required_clicks(OrderCatalog[o.order_id].base_clicks, user.level,
                                             Stats(DB, now).req_clicks_pct)]_vars

(* ------------------------------------------------------------------ *)
(* PassiveAccrual: the catch-up before an action                        *)
(* ------------------------------------------------------------------ *)

\* The passive income an accrual made in the state (u, orders, ...) at the
\* current time would grant.
Pending(db, t) == apply_offline_income(db, t).amount

\* A step of a handler (the clock stands still) does not alter the income
\* granted for the time that has elapsed: what was pending before the step is
\* credited in the step or still pending after it.
PendingKept ==
    (now' = now /\ ~ResetStep) =>
        Pending(DB, now)
            = (user'.passive_income_collected - user.passive_income_collected)
              + Pending(DB', now)

\* A step in which an action of the player changed a row: an admitted click,
\* an accept, a cancel, a skill pick, a prestige reset.
ActionStep ==
    \/ AdmittedClick
    \/ (TakeStep /\ out'.msg = "order_taken")
    \/ (CancelStep /\ out'.msg = "order_canceled")
    \/ ResetStep
    \/ (out'.msg = "skill_picked" /\ user_skills' # user_skills)

\* C30: every action of the player applies the passive accrual before its
\* own changes (last_seen is the current time after it), so a change of the
\* passive rate never alters the income granted for the time that elapsed
\* before the change.
C30_CatchUpFirst ==
    /\ [][ActionStep => user'.last_seen = now]_vars
    /\ [][PendingKept]_vars

(* ------------------------------------------------------------------ *)
(* PassiveAccrual: splitting the interval                               *)
(* ------------------------------------------------------------------ *)
\* What one accrual over the whole time from the start to last_seen grants.
WholeInterval == PassiveAmount(DB, Stats(DB, now), user.last_seen - StartTime)

\* C31: with a constant passive rate and the elapsed time within the offline
\* cap, the amounts granted by consecutive accruals over the sub-intervals
\* add up to what one accrual over the whole interval grants,
\* floor(rate x total elapsed).
C31_SplitIsExact ==
    user.passive_income_collected = WholeInterval

(* ------------------------------------------------------------------ *)
(* EventResolver: percentages that round to zero                        *)
(* ------------------------------------------------------------------ *)
\* The sign of a percentage.
Sign(pct) == IF pct > 0 THEN 1 ELSE IF pct < 0 THEN -1 ELSE 0

\* The exact value base x pct / den lies strictly between -1 and 1.
RoundsToZero(base, pct, den) == base * pct < den /\ base * pct > -den

\* The percentage deltas of the effect applied to the row u are +1 or -1, by
\* the sign of the percentage, whenever the exact value rounds to 0.
ForcedToOne(u, effect) ==
    /\ ("balance_pct" \in DOMAIN effect
            /\ RoundsToZero(u.balance, effect.balance_pct, PctDen(effect)))
        => BalanceDelta(u, effect) = Sign(effect.balance_pct)
    /\ ("xp_pct" \in DOMAIN effect
            /\ RoundsToZero(xp_to_level(u.level), effect.xp_pct, PctDen(effect)))
        => XpDelta(u, effect) = Sign(effect.xp_pct)

\* What the effect changed: the balance moved by the balance delta, the
\* experience by the experience delta, clamped at 0.
DeltaApplied(u, effect) ==
    /\ user.balance = Max(0, u.balance + BalanceDelta(u, effect))
    /\ user.xp = Max(0, u.xp + XpDelta(u, effect))
    /\ user.level = u.level

\* C32 as stated: a percentage delta that rounds to 0 is forced to +1 or -1
\* for every balance and every experience of the player.
C32_ForcedForEveryBalance ==
    out.msg = "effect" =>
        /\ ForcedToOne(out.before, out.effect)
        /\ DeltaApplied(out.before, out.effect)

\* C32, amended: the same for every positive balance and every experience;
\* with a balance of 0 the balance percentage contributes 0.
C32_ForcedForPositiveBalance ==
    out.msg = "effect" =>
        /\ out.before.balance > 0 => ForcedToOne(out.before, out.effect)
        /\ out.before.balance = 0 =>
               /\ BalanceDelta(out.before, out.effect) = 0
               /\ ForcedToOne(out.before, [k \in DOMAIN out.effect \ {"balance_pct"} |->
                                              out.effect[k]])
        /\ DeltaApplied(out.before, out.effect)

\* C32, witness: 5% of a balance of 7 is 0.35; the bonus applied is 1.
C32_Witness ==
    /\ out.msg = "effect"
    /\ out.effect = [balance_pct |-> 5]
    /\ out.before.balance = 7
    /\ user.balance = 8

(* ------------------------------------------------------------------ *)
(* EventResolver: the weighted draw                                     *)
(* ------------------------------------------------------------------ *)
\* The resistance of a player: what the anti_brak levels add up to.
Resistance(db) == BoostCatalog["anti_brak"].step_value * db.boosts["anti_brak"]

\* The weight the rule gives the event c for the player, in hundredths.
RuleWeight(db, c) ==
    EventCatalog[c].weight
        * (IF is_negative_event(EventCatalog[c])
           THEN 100 - Min(Resistance(db), NEGATIVE_EVENT_REDUCTION_CAP)
           ELSE 100)

\* The events of the rule: min_level <= player level.
RuleCandidates(db) == {c \in EventCodes : EventCatalog[c].min_level <= db.user.level}

\* The candidates that come before the event c in the order of the rows.
RowsBefore(db, c) ==
    {d \in RuleCandidates(db) :
        \E i, j \in DOMAIN EventOrder : EventOrder[i] = d /\ EventOrder[j] = c /\ i < j}

\* The weight of the rule summed over a set of events.
RuleSum(db, S) == SumOver(S, [c \in EventCodes |-> RuleWeight(db, c)])

\* The event drawn is a candidate, and the point drawn lies in the stretch
\* of the total weight that the rule gives it.
DrawnByRule(db, c, pick) ==
    /\ c \in RuleCandidates(db)
    /\ pick <= RuleSum(db, RowsBefore(db, c)) + RuleWeight(db, c)
    /\ pick > RuleSum(db, RowsBefore(db, c)) \/ (pick = 0 /\ RowsBefore(db, c) = {})

\* The weights the draw gives the negative and the other candidates of a player.
DrawnWeight(db, negative) ==
    LET rows == EventCandidates(db)
        weights == DrawWeights(rows, Stats(db, now))
    IN  SumSeq([i \in 1..Len(rows) |->
                    IF is_negative_event(EventCatalog[rows[i]]) = negative
                    THEN weights[i] ELSE 0])

\* The share of negative events of db is smaller than that of other.
SmallerShare(db, other) ==
    DrawnWeight(db, TRUE) * (DrawnWeight(other, TRUE) + DrawnWeight(other, FALSE))
        < DrawnWeight(other, TRUE) * (DrawnWeight(db, TRUE) + DrawnWeight(db, FALSE))

\* The same player with one more level of anti_brak.
MoreResistant(db) == [db EXCEPT !.boosts["anti_brak"] = @ + 1]

\* C33: only events with min_level <= player level are drawn; a negative
\* candidate weighs base x (1 - min(resistance, 0.90)), every other candidate
\* its base weight; with candidates of both kinds the share of negative
\* events strictly decreases while resistance grows up to the cap, does not
\* change beyond the cap, and stays positive.
C33_NegativeShareDecreases ==
    out.msg = "event" =>
        /\ DrawnByRule(DB, out.event, out.pick)
        /\ DrawnWeight(DB, TRUE) > 0 /\ DrawnWeight(DB, FALSE) > 0
        /\ Resistance(DB) < NEGATIVE_EVENT_REDUCTION_CAP =>
               SmallerShare(MoreResistant(DB), DB)
        /\ Resistance(DB) >= NEGATIVE_EVENT_REDUCTION_CAP =>
               /\ DrawnWeight(MoreResistant(DB), TRUE) = DrawnWeight(DB, TRUE)
               /\ DrawnWeight(MoreResistant(DB), FALSE) = DrawnWeight(DB, FALSE)

\* C33, witness: a level-20 player whose resistance is past the cap drew a
\* negative event.
C33_Witness ==
    /\ out.msg = "event"
    /\ user.level = 20
    /\ Resistance(DB) > NEGATIVE_EVENT_REDUCTION_CAP
    /\ is_negative_event(EventCatalog[out.event])

(* ------------------------------------------------------------------ *)
(* StatAggregation: click power                                         *)
(* ------------------------------------------------------------------ *)
\* What a cp_add boost of the base bonus b has added at level lvl: the
\* rounded bonus of every level bought, growing by 1.45 a level.
BoughtBonus(b, lvl) ==
    SumSeq([i \in 1..lvl |-> Round(b * Pow(29, i - 1), Pow(20, i - 1))])

\* The additive part: cumulative cp_add boosts, flat cp boosts, skills and
\* unexpired buffs.
PowerAdditive(db, t) ==
    SumOver({c \in BoostCodes : BoostCatalog[c].type = "cp_add"},
            [c \in BoostCodes |-> BoughtBonus(BoostCatalog[c].step_value, db.boosts[c])])
    + SumOver({c \in BoostCodes : BoostCatalog[c].type = "cp"},
              [c \in BoostCodes |-> db.boosts[c] * BoostCatalog[c].step_value])
    + SumOver(db.skills, [s \in SkillCodes |-> Get(SkillCatalog[s].effect, "cp_add", 0)])
    + SumSeq([i \in 1..Len(db.buffs) |->
                 IF db.buffs[i].expires_at > t THEN Get(db.buffs[i].payload, "cp_add", 0)
                 ELSE 0])

\* The percentage part, in hundredths: equipment scaled by 1 + equipment
\* efficiency, skills, unexpired buffs and the reputation.
PowerPct(db, g, t) ==
    SumOver({sl \in Slots : db.equipment[sl] # None
                            /\ ItemCatalog[db.equipment[sl]].bonus_type = "cp_pct"},
            [sl \in Slots |->
                (ItemCatalog[db.equipment[sl]].bonus_value
                    * (100 + g * GearBoost.step_value)) \div 100])
    + SumOver(db.skills, [s \in SkillCodes |-> Get(SkillCatalog[s].effect, "cp_pct", 0)])
    + SumSeq([i \in 1..Len(db.buffs) |->
                 IF db.buffs[i].expires_at > t THEN Get(db.buffs[i].payload, "cp_pct", 0)
                 ELSE 0])
    + db.prestige.reputation

\* max(1, round((cp_base + additive) x (1 + cp_pct)))
PowerRule(db, g, t) ==
    Max(1, Round((db.user.cp_base + PowerAdditive(db, t)) * (100 + PowerPct(db, g, t)), 100))

\* C34: the click power get_user_stats returns is
\* max(1, round((cp_base + additive) x (1 + cp_pct))) with the additive part
\* summed over cumulative cp_add boosts, flat cp boosts, skills and unexpired
\* buffs and cp_pct over scaled equipment, skills, unexpired buffs and
\* reputation x 0.01; it is at least 1, and the reputation counts in the
\* first aggregation after a prestige reset.
C34_ClickPower ==
    out.msg = "stats" =>
        /\ out.stats.cp = PowerRule(out.before, out.gear, now)
        /\ out.stats.cp >= 1
        /\ out.stats.prestige_pct = prestige.reputation

\* C34, witness: the stats read right after a reset count the reputation the
\* reset added.
C34_Witness ==
    /\ out.msg = "stats"
    /\ hist.resets = 1
    /\ prestige.reputation > 1
    /\ out.stats.prestige_pct = prestige.reputation
    /\ out.stats.cp = PowerRule(DB, 0, now)

(* ------------------------------------------------------------------ *)
(* QuestProgression: advancing                                          *)
(* ------------------------------------------------------------------ *)
\* The quest q is in progress: its row exists and is not done.
InProgress(quests, q) == q \in DOMAIN quests /\ ~quests[q].is_done

\* What a choice typed at the stage s of the quest q did: an offered option
\* that declares the terminal marker completes the quest, and it is the
\* option of the last stage; an offered option that declares a stage moves
\* the quest there, one stage further; any other text changes nothing.
ChoiceMade(q, s, options, choice) ==
    IF choice \in DOMAIN options
    THEN IF options[choice].next = "finale"
         THEN /\ IsDone(user_quests', q)
              /\ s = Len(QuestCatalog[q].stage_keys) - 1
         ELSE /\ InProgress(user_quests', q)
              /\ quest_current_stage_key(user_quests'[q], QuestCatalog[q])
                     = options[choice].next
              /\ user_quests'[q].stage = s + 1
    ELSE /\ out'.msg = "quest_option_unknown"
         /\ user_quests' = user_quests /\ user' = user /\ economy_log' = economy_log
         /\ user_items' = user_items /\ \A c \in Chats : fsm'[c] = fsm[c]

\* C35, the steps: a text typed in quest_playing for a quest in progress.
C35_ChoiceStep ==
    (QuestStep /\ out'.handler = "quest_playing") =>
        \A c \in Chats : \A q \in Submitted(c) :
            InProgress(user_quests, q) =>
                ChoiceMade(q, user_quests[q].stage,
                           QuestCatalog[q].flow[user_quests[q].stage + 1], out'.input)

\* C35, the states: the stage of a quest in progress is a stage of the flow,
\* and an option that declares no stage would move it to the following one.
C35_StageInside ==
    \A q \in QuestCodes :
        InProgress(user_quests, q) =>
            /\ user_quests[q].stage \in 0..(Len(QuestCatalog[q].stage_keys) - 1)
            /\ user_quests[q].stage + 1 < Len(QuestCatalog[q].stage_keys) =>
                   NextStage(DB, fsm[MainChat], q, -1).db.quests[q].stage
                       = user_quests[q].stage + 1

PendingRows(buffs, code) == {i \in DOMAIN buffs : buffs[i].pending /\ buffs[i].code = code}

\* The options the pending event of the code offers; none without one.
Offered(code) ==
    IF PendingRows(user_buffs, code) = {} THEN <<>>
    ELSE user_buffs[CHOOSE i \in PendingRows(user_buffs, code) : TRUE].payload.options

\* The effect was applied once: the balance and the experience moved by the
\* deltas of the effect, one log row was written for each delta that is not
\* 0, and the pending row is gone.
AppliedOnce(code, effect) ==
    /\ user'.balance = Max(0, user.balance + BalanceDelta(user, effect))
    /\ user'.xp = Max(0, user.xp + XpDelta(user, effect))
    /\ Len(economy_log') = Len(economy_log)
                           + (IF BalanceDelta(user, effect) # 0 THEN 1 ELSE 0)
                           + (IF XpDelta(user, effect) # 0 THEN 1 ELSE 0)
    /\ PendingRows(user_buffs', code) = {}
    /\ Len(user_buffs') = Len(user_buffs) - 1

\* No row of the player changed.
RowsKept ==
    /\ user' = user /\ user_buffs' = user_buffs /\ economy_log' = economy_log
    /\ user_boosts' = user_boosts /\ user_orders' = user_orders

\* C36, the steps: a press for a pending event with an offered index applies
\* the option's effect once and removes the pending row; any other press
\* changes no row.
C36_ResolveStep ==
    "choice_idx" \in DOMAIN out' /\ now' = now /\ out' # out =>
        IF out'.choice_idx < Len(Offered(out'.code))
        THEN /\ out'.msg = "choice_applied"
             /\ AppliedOnce(out'.code, Offered(out'.code)[out'.choice_idx + 1].effect)
        ELSE /\ out'.msg = IF Offered(out'.code) = <<>> THEN "event_already_handled"
                           ELSE "bad_choice"
             /\ RowsKept

\* C36: resolving a pending interactive event applies the chosen option's
\* effect exactly once and removes the pending entry; a request that finds no
\* matching pending event, or whose index is outside the offered options,
\* applies no effect and leaves the player's state and any pending entry
\* unchanged.
C36_ResolvedOnce == [][C36_ResolveStep]_vars

\* C36, witness: the penalty option of a pending event was applied, and the
\* event is no longer pending.
C36_Witness ==
    /\ "choice_idx" \in DOMAIN out
    /\ out.msg = "choice_applied"
    /\ PendingRows(user_buffs, out.code) = {}
    /\ \E i \in DOMAIN economy_log : economy_log[i].type = "event_penalty"


(* ------------------------------------------------------------------ *)
(* C37: the balance is never negative                                   *)
(* ------------------------------------------------------------------ *)
\* A step is a purchase attempt: the buy button of a boost, of an item, or
\* the upgrade button of a team member.
BuyStep == hist'.buys = hist.buys + 1

\* The price the attempt compares the balance with: the next level of the
\* boost, or the price the answer of the item or team handler carries.
PriceAsked(before_fsm, boosts, answer) ==
    IF before_fsm.state = "shop_confirm_boost"
    THEN upgrade_cost(BoostCatalog[before_fsm.boost_id].base_cost,
                      boosts[before_fsm.boost_id] + 1)
    ELSE answer.price

\* What the player owns.
Owned == << user_boosts, user_items, user_team >>

\* A purchase attempt of a player whose balance, passive income included, is
\* paid: it succeeds only with paid >= price and then takes the price (the
\* daily shop task may pay its reward in the same step);
\* answered with insufficient funds, it found paid < price and leaves the
\* balance and what the player owns as they were.
PurchaseRule(paid, price) ==
    /\ out'.msg \in {"purchase_ok", "upgrade_ok"} =>
           /\ paid >= price
           /\ user'.balance >= paid - price
           /\ Owned' # Owned
    /\ out'.msg = "insufficient_funds" =>
           /\ paid < price
           /\ user'.balance = paid
           /\ Owned' = Owned
    /\ paid < price => out'.msg \notin {"purchase_ok", "upgrade_ok"}

\* The flat penalty of the first option of the interactive event.
SpillPenalty == -EventCatalog["spill_choice"].effect.interactive[1].effect.balance

\* The penalty option applied (the pending row goes) to a balance no larger
\* than the penalty leaves 0.
PenaltyRule ==
    (/\ "choice_idx" \in DOMAIN out'
     /\ out'.msg = "choice_applied"
     /\ out'.choice_idx = 0
     /\ user_buffs' # user_buffs
     /\ user.balance <= SpillPenalty) => user'.balance = 0

C37_Step ==
    /\ BuyStep => PurchaseRule(process_offline_income(DB, now).user.balance,
                               PriceAsked(fsm[MainChat], user_boosts, out'))
    /\ PenaltyRule

\* C37: the balance is never negative; a boost, equipment or team purchase
\* succeeds only when the balance is at least the price, and otherwise answers
\* with insufficient funds and changes nothing; an event penalty larger than
\* the balance leaves 0.
C37_BalanceNeverNegative == [](user.balance >= 0) /\ [][C37_Step]_vars

\* C37, witness: after a successful purchase the penalty option of the
\* interactive event was applied and the balance is 0.
C37_Witness ==
    /\ "choice_idx" \in DOMAIN out
    /\ out.msg = "choice_applied"
    /\ out.choice_idx = 0
    /\ user.balance = 0
    /\ \E i \in DOMAIN economy_log : economy_log[i].type \in {"buy_item", "team_upgrade"}


(* ------------------------------------------------------------------ *)
(* C38: experience stays below the threshold of the level               *)
(* ------------------------------------------------------------------ *)
\* 0 <= xp < 100 * level ** 2, and the level is at least 1.
XpInsideLevel(u) ==
    /\ u.level >= 1
    /\ 0 <= u.xp
    /\ u.xp < xp_to_level(u.level)

\* The level falls only in a prestige execute, which leaves level 1, xp 0.
LevelKept ==
    user'.level < user.level =>
        /\ hist'.resets = hist.resets + 1
        /\ out'.msg = "studio_done"
        /\ user'.level = 1
        /\ user'.xp = 0

\* The flat xp penalty of the second option of the interactive event.
SpillXpPenalty == -EventCatalog["spill_choice"].effect.interactive[2].effect.xp

\* An event penalty on xp (the pending row goes, the xp falls) of at least the
\* xp the player has leaves xp 0 and the level as it was.
XpPenaltyClamped ==
    (/\ user_buffs' # user_buffs
     /\ out'.msg = "choice_applied"
     /\ user'.level = user.level
     /\ user.xp <= SpillXpPenalty
     /\ user'.balance = user.balance) => user'.xp \in {0, user.xp}

C38_Step == LevelKept /\ XpPenaltyClamped

\* C38: after every action 0 <= xp < 100 * level ** 2 (the level-up loop
\* ends below the threshold); the level never decreases except in a prestige
\* execute; xp penalties clamp at 0.
C38_XpBelowThreshold == [](XpInsideLevel(user)) /\ [][C38_Step]_vars

\* C38, witness: the player who started at level 4 with 1595 xp has reached
\* level 5, the loop having taken the threshold of level 4 from the xp.
C38_Witness ==
    /\ user.level = 5
    /\ user.orders_completed > 12
    /\ user.xp < 1595


(* ------------------------------------------------------------------ *)
(* C39: the gain of a prestige execute                                  *)
(* ------------------------------------------------------------------ *)
\* The reputation a prestige execute adds is floor(sqrt(L / K)) for the
\* lifetime earnings L the log holds when the execute runs.
GainFromLog ==
    prestige'.reputation - prestige.reputation = calc_prestige_gain(calc_total_earned(DB))

\* The execute runs for a player of level 20 or more and adds reputation.
ExecuteAllowed ==
    /\ user.level >= 20
    /\ prestige'.reputation > prestige.reputation

\* C39: the reputation added by a prestige execute is floor(sqrt(L / K)) for
\* the lifetime earnings L at the moment of the execute, also when the player
\* earned between the preview and the confirm; the execute is reached only
\* by a player of level 20 or more whose gain is greater than 0.
C39_GainAtExecute == [][ResetStep => (GainFromLog /\ ExecuteAllowed)]_vars


(* ------------------------------------------------------------------ *)
(* C40: a click runs only after RateLimiter.allow admitted it           *)
(* ------------------------------------------------------------------ *)
\* A step in which handle_click ran.
ClickExecuted == hist'.clicks = hist.clicks + 1 /\ out'.msg \notin {"too_fast", "error"}

\* The step called RateLimiter.allow with a limit lim within [1, 30], the
\* call admitted the click and stored its time in the deque.
AdmittedWith(lim, t) ==
    /\ lim \in 1..MAX_CLICK_LIMIT
    /\ allow(events, lim, t).ok
    /\ events' = allow(events, lim, t).events

\* C40: a click is executed only after RateLimiter.allow admitted it, also
\* when looking up the click limit raises; the limit passed to allow is
\* within [1, 30].
C40_AdmittedFirst ==
    [][ClickExecuted => AdmittedWith(get_user_click_limit(DB, now).limit, now)]_vars

====
